---- MODULE Spec2Model ----
(***************************************************************************)
(* Model of the light-switch firmware: the button handler (debounce, press *)
(* classification, work-queue dispatch), the relay API, the threshold      *)
(* gated voltage reporter with its join flag, the periodic ADC sampler     *)
(* and the set-up sequence of main().                                      *)
(*                                                                         *)
(* Execution contexts:                                                     *)
(*   - GPIO edge interrupt            (button_isr)                         *)
(*   - kernel timer expiry (ISR)      (debounce_timer_handler,             *)
(*                                     factory_reset_timer_handler)        *)
(*   - system work-queue thread       (short_press_work_handler,           *)
(*                                     factory_reset_work_handler,         *)
(*                                     adc_work_handler)                   *)
(*   - main thread                    (main, and the application's calls   *)
(*                                     of the sampler API)                 *)
(*   - ZBOSS scheduler thread         (do_factory_reset, voltage_report_cb,*)
(*                                     zboss_signal_handler)               *)
(* Time is counted in kernel ticks of TICK_MS milliseconds; K_MSEC rounds  *)
(* a duration up to whole ticks, as the kernel does.                       *)
(***************************************************************************)
EXTENDS Integers, Sequences, FiniteSets, TLC

----------------------------------------------------------------------------
(* Bounds of the model *)

\* Length of one kernel tick in milliseconds.
TICK_MS == 50
\* Number of press events (k_work_submit calls) followed in one behaviour.
MaxEvents == 3
\* Capacity of the ZBOSS scheduler queue followed by the model.
MaxSched == 2

(* Program constants *)
DEBOUNCE_MS == 30
FACTORY_RESET_TIME_MS == 5000
VOLTAGE_REPORT_THRESHOLD_CV == 5
\* Build configuration (Kconfig): reads per sample and seconds between two
\* samples
CONFIG_ADC_OVERSAMPLE_COUNT == 2
CONFIG_ADC_READING_INTERVAL_SEC == 1
ADC_READING_INTERVAL_MS == CONFIG_ADC_READING_INTERVAL_SEC * 1000

K_MSEC(ms) == (ms + TICK_MS - 1) \div TICK_MS

BTN_IDLE == "BTN_IDLE"
BTN_PRESSED == "BTN_PRESSED"
BTN_LONG_PRESS == "BTN_LONG_PRESS"
button_state_t == {BTN_IDLE, BTN_PRESSED, BTN_LONG_PRESS}

short_press_work == "short_press_work"
factory_reset_work == "factory_reset_work"
adc_work_item == "adc_work"
NoWork == "none"

VARIABLES
    level,                \* physical button level: TRUE = pressed
    btn_state,            \* button_state_t
    debounce_timer,       \* k_timer: [armed, ticks] ticks left to expiry
    factory_reset_timer,  \* k_timer: [armed, ticks]
    user_callback,        \* TRUE when a callback was given to button_handler_init
    work_q,               \* system work queue: pending work items, head first
    work_running,         \* work item whose handler the queue thread is in
    relay_state,          \* relay_ctx.relay_state
    relay_gpio,           \* level last written by relay_control_set
    zb_sched,             \* ZBOSS scheduler queue of application callbacks
    voltage_present_value,
    voltage_last_reported,
    network_joined,
    main_pc,              \* the statement main() is at
    button_cb_registered, \* button_isr is registered with the GPIO port
    zigbee_started,       \* zigbee_enable() has been called
    adc_ready,            \* adc_reader_init() returned 0
    dk,                   \* main.c's button path: [timer, pending, outcomes]
    periodic_reading_enabled,
    adc_work,             \* k_work_delayable: [timeout, running, canceling]
    adc_pc,               \* the statement adc_work_handler is at, when running
    battery_voltage,      \* battery voltage attribute, units of 100 mV
    battery_percentage,   \* battery percentage attribute, half-percent units
    battery_last_reported,
    \* history (not program state)
    quiet,                \* ticks since the last edge, capped at the quiet period
    burst,                \* the current burst: edges, level at first edge, settles
    held,                 \* ticks since IDLE -> PRESSED, capped at the hold period
    press_mark,           \* Len(transitions) at the latest IDLE -> PRESSED
    expiries,             \* hold-timer expiries that found BTN_PRESSED
    transitions,          \* press events in the order of their transitions
    executions,           \* indices into transitions, in order of handler runs
    calls,                \* calls made by the latest handler, in order
    resets,               \* number of zb_bdb_reset_via_local_action calls
    last_update,          \* the latest zigbee_device_update_voltage call
    example,              \* the calls so far, while they follow ExampleMv
    ever_joined,          \* network_joined has been TRUE
    last_signal,          \* the latest signal handled, where signals are traced
    sent,                 \* the latest report handed to the stack
    emitted,              \* value of the latest report scheduled
    last_tick,            \* the latest run of adc_work_handler
    last_start,           \* the latest call of adc_start_periodic_reading
    last_battery,         \* the latest call of zigbee_device_update_battery
    last_relay,           \* the latest call of the relay API and the one before
    last_zcl,             \* the latest ZCL device callback and its status
    relay_ops,            \* relay writes in progress, per thread: [pc, val]
    last_op               \* the latest step

vars == << level, btn_state, debounce_timer, factory_reset_timer, user_callback,
           work_q, work_running, relay_state, relay_gpio, zb_sched,
           voltage_present_value, voltage_last_reported, network_joined,
           quiet, burst, held, press_mark, expiries, transitions, executions, calls, resets,
           last_update, example, ever_joined, last_signal, sent, emitted, last_op,
           main_pc, button_cb_registered, zigbee_started, adc_ready, dk,
           periodic_reading_enabled, adc_work, adc_pc, battery_voltage,
           battery_percentage, battery_last_reported, last_tick, last_start,
           last_battery, last_relay, last_zcl, relay_ops >>

buttonVars == << level, btn_state, debounce_timer, factory_reset_timer,
                 user_callback, work_q, work_running, quiet, burst, held,
                 press_mark, expiries, transitions, executions >>
relayVars == << relay_state, relay_gpio, last_relay, last_zcl, relay_ops >>
voltageVars == << voltage_present_value, voltage_last_reported, network_joined,
                  last_update, example, ever_joined, last_signal, sent,
                  emitted >>
mainVars == << main_pc, button_cb_registered, zigbee_started, adc_ready, dk >>
batteryAttrs == << battery_voltage, battery_percentage, battery_last_reported >>
batteryVars == << battery_voltage, battery_percentage, battery_last_reported,
                 last_battery >>
\* The periodic sampler, but for the work item's own state
samplerRest == << periodic_reading_enabled, adc_pc, last_tick, last_start >>
samplerVars == << adc_work, samplerRest >>

----------------------------------------------------------------------------
(* Kernel timers (single shot) *)

TimerStopped == [armed |-> FALSE, ticks |-> 0]

\* k_timer_start(&t, K_MSEC(ms), K_NO_WAIT): (re)arms, replacing a pending expiry
k_timer_start(ms) == [armed |-> TRUE, ticks |-> K_MSEC(ms)]

\* k_timer_stop(&t)
k_timer_stop == TimerStopped

Expired(t) == t.armed /\ t.ticks = 0

TickTimer(t) == IF t.armed THEN [t EXCEPT !.ticks = @ - 1] ELSE t

Min(a, b) == IF a < b THEN a ELSE b

----------------------------------------------------------------------------
(* History helpers *)

Op(name, from, pressed) == [op |-> name, from |-> from, pressed |-> pressed]

NoBurst == [edges |-> 0, first |-> FALSE, settles |-> 0]

----------------------------------------------------------------------------
(* GPIO collaborator *)

\* Variant: the level latched at the first edge of the burst
button_get_state_first_edge == burst.first

\* button_get_state(): the current physical level
button_get_state == level

\* relay_control_set(on): the level driven on the relay pin
relay_control_set(on) == on

----------------------------------------------------------------------------
(* Relay API *)

\* zigbee_device_init(): the relay starts OFF
zigbee_device_init ==
    [relay_state |-> FALSE, relay_gpio |-> relay_control_set(FALSE)]

\* Variant: the output is driven but the state is not stored
zigbee_device_set_relay_output_only(on) ==
    [relay_state |-> relay_state, relay_gpio |-> relay_control_set(on)]

\* zigbee_device_set_relay(on): state, then output
zigbee_device_set_relay(on) ==
    [relay_state |-> on, relay_gpio |-> relay_control_set(on)]

\* Variant: writes the current state back without negating it
zigbee_device_toggle_relay_same == zigbee_device_set_relay(relay_state)

\* zigbee_device_toggle_relay(): set_relay(!relay_ctx.relay_state); the value
\* returned is relay_ctx.relay_state after the call
zigbee_device_toggle_relay == zigbee_device_set_relay(~relay_state)

\* zigbee_device_get_relay_state()
zigbee_device_get_relay_state == relay_state

NoZcl == [called |-> FALSE, on_off |-> FALSE, endpoint |-> 0, value |-> FALSE,
          status |-> "none", before |-> FALSE, before_gpio |-> FALSE]

\* No thread is inside a relay write
NoRelayOp == [pc |-> "idle", val |-> FALSE]
NoRelayOps == [wq |-> NoRelayOp, zb |-> NoRelayOp]

NoRelayCall == [op |-> "none", arg |-> FALSE, before |-> FALSE, ret |-> FALSE,
                prev_op |-> "none", before_prev |-> FALSE]

\* What a call `op` of the relay API with result r leaves behind
RelayEffect(op, arg, r) ==
    /\ relay_state' = r.relay_state
    /\ relay_gpio' = r.relay_gpio
    /\ last_relay' = [op          |-> op,
                      arg         |-> arg,
                      before      |-> relay_state,
                      ret         |-> r.relay_state,
                      prev_op     |-> last_relay.op,
                      before_prev |-> last_relay.before]
    /\ UNCHANGED << last_zcl, relay_ops >>

----------------------------------------------------------------------------
(* System work queue *)

NoItem == [work |-> NoWork, seq |-> 0]

IsPending(q, work) == \E i \in 1..Len(q) : q[i].work = work

\* k_work_submit(&work): queues the item unless it is already queued; an item
\* whose handler is running is queued again.  seq is the index of the press
\* event that queued it (history).
k_work_submit(q, work, seq) ==
    IF IsPending(q, work) THEN q ELSE Append(q, [work |-> work, seq |-> seq])

\* Variant: the queue thread takes the newest pending item
work_q_take_newest(q) ==
    [item |-> q[Len(q)], rest |-> SubSeq(q, 1, Len(q) - 1)]

\* The queue thread takes the oldest pending item
work_q_take(q) == [item |-> Head(q), rest |-> Tail(q)]

----------------------------------------------------------------------------
(* Press classifier *)

\* Variant: the release of a short press leaves the hold timer running
process_button_state_keeps_timer(st, pressed) ==
    CASE st = BTN_IDLE /\ pressed ->
            [state |-> BTN_PRESSED, timer |-> "start", submit |-> NoWork]
      [] st = BTN_PRESSED /\ ~pressed ->
            [state |-> BTN_IDLE, timer |-> "keep", submit |-> short_press_work]
      [] st = BTN_LONG_PRESS /\ ~pressed ->
            [state |-> BTN_IDLE, timer |-> "keep", submit |-> NoWork]
      [] OTHER ->
            [state |-> st, timer |-> "keep", submit |-> NoWork]

\* Variant: the release after a long press also counts as a short press
process_button_state_release_event(st, pressed) ==
    CASE st = BTN_IDLE /\ pressed ->
            [state |-> BTN_PRESSED, timer |-> "start", submit |-> NoWork]
      [] st = BTN_PRESSED /\ ~pressed ->
            [state |-> BTN_IDLE, timer |-> "stop", submit |-> short_press_work]
      [] st = BTN_LONG_PRESS /\ ~pressed ->
            [state |-> BTN_IDLE, timer |-> "keep", submit |-> short_press_work]
      [] OTHER ->
            [state |-> st, timer |-> "keep", submit |-> NoWork]

\* Variant: a settled 'released' sample in BTN_PRESSED is ignored
process_button_state_ignores_release(st, pressed) ==
    CASE st = BTN_IDLE /\ pressed ->
            [state |-> BTN_PRESSED, timer |-> "start", submit |-> NoWork]
      [] st = BTN_LONG_PRESS /\ ~pressed ->
            [state |-> BTN_IDLE, timer |-> "keep", submit |-> NoWork]
      [] OTHER ->
            [state |-> st, timer |-> "keep", submit |-> NoWork]

\* Variant: the release of a short press requests the factory reset
process_button_state_release_resets(st, pressed) ==
    CASE st = BTN_IDLE /\ pressed ->
            [state |-> BTN_PRESSED, timer |-> "start", submit |-> NoWork]
      [] st = BTN_PRESSED /\ ~pressed ->
            [state |-> BTN_IDLE, timer |-> "stop",
             submit |-> factory_reset_work]
      [] st = BTN_LONG_PRESS /\ ~pressed ->
            [state |-> BTN_IDLE, timer |-> "keep", submit |-> NoWork]
      [] OTHER ->
            [state |-> st, timer |-> "keep", submit |-> NoWork]

\* Variant: a settled 'released' sample in BTN_LONG_PRESS is ignored
process_button_state_long_press_sticks(st, pressed) ==
    CASE st = BTN_IDLE /\ pressed ->
            [state |-> BTN_PRESSED, timer |-> "start", submit |-> NoWork]
      [] st = BTN_PRESSED /\ ~pressed ->
            [state |-> BTN_IDLE, timer |-> "stop", submit |-> short_press_work]
      [] OTHER ->
            [state |-> st, timer |-> "keep", submit |-> NoWork]

\* Variant: a settled 'released' sample in BTN_IDLE counts as a short press
process_button_state_idle_release_event(st, pressed) ==
    CASE st = BTN_IDLE /\ pressed ->
            [state |-> BTN_PRESSED, timer |-> "start", submit |-> NoWork]
      [] st = BTN_IDLE /\ ~pressed ->
            [state |-> BTN_IDLE, timer |-> "keep", submit |-> short_press_work]
      [] st = BTN_PRESSED /\ ~pressed ->
            [state |-> BTN_IDLE, timer |-> "stop", submit |-> short_press_work]
      [] st = BTN_LONG_PRESS /\ ~pressed ->
            [state |-> BTN_IDLE, timer |-> "keep", submit |-> NoWork]
      [] OTHER ->
            [state |-> st, timer |-> "keep", submit |-> NoWork]

\* Variant: the release of a short press submits nothing
process_button_state_release_silent(st, pressed) ==
    CASE st = BTN_IDLE /\ pressed ->
            [state |-> BTN_PRESSED, timer |-> "start", submit |-> NoWork]
      [] st = BTN_PRESSED /\ ~pressed ->
            [state |-> BTN_IDLE, timer |-> "stop", submit |-> NoWork]
      [] st = BTN_LONG_PRESS /\ ~pressed ->
            [state |-> BTN_IDLE, timer |-> "keep", submit |-> NoWork]
      [] OTHER ->
            [state |-> st, timer |-> "keep", submit |-> NoWork]

\* Variant: a repeated 'pressed' sample starts the hold timer afresh
process_button_state_restarts(st, pressed) ==
    CASE st = BTN_IDLE /\ pressed ->
            [state |-> BTN_PRESSED, timer |-> "start", submit |-> NoWork]
      [] st = BTN_PRESSED /\ pressed ->
            [state |-> BTN_PRESSED, timer |-> "start", submit |-> NoWork]
      [] st = BTN_PRESSED /\ ~pressed ->
            [state |-> BTN_IDLE, timer |-> "stop", submit |-> short_press_work]
      [] st = BTN_LONG_PRESS /\ ~pressed ->
            [state |-> BTN_IDLE, timer |-> "keep", submit |-> NoWork]
      [] OTHER ->
            [state |-> st, timer |-> "keep", submit |-> NoWork]

\* process_button_state(pressed) in state st: the next state, what happens to
\* the hold timer, and the work item submitted
process_button_state(st, pressed) ==
    CASE st = BTN_IDLE /\ pressed ->
            [state |-> BTN_PRESSED, timer |-> "start", submit |-> NoWork]
      [] st = BTN_PRESSED /\ ~pressed ->
            [state |-> BTN_IDLE, timer |-> "stop", submit |-> short_press_work]
      [] st = BTN_LONG_PRESS /\ ~pressed ->
            [state |-> BTN_IDLE, timer |-> "keep", submit |-> NoWork]
      [] OTHER ->
            [state |-> st, timer |-> "keep", submit |-> NoWork]

\* Variant: k_timer_stop is left out
ApplyTimer_without_stop(cmd, t) ==
    CASE cmd = "start" -> k_timer_start(FACTORY_RESET_TIME_MS)
      [] OTHER -> t

ApplyTimer(cmd, t) ==
    CASE cmd = "start" -> k_timer_start(FACTORY_RESET_TIME_MS)
      [] cmd = "stop" -> k_timer_stop
      [] OTHER -> t

\* A press event (PRESSED -> IDLE or PRESSED -> LONG_PRESS) and its k_work_submit
Submit(work) ==
    /\ transitions' = Append(transitions, work)
    /\ work_q' = k_work_submit(work_q, work, Len(transitions) + 1)

\* Variant: the interrupt also puts the classifier back to BTN_IDLE
button_isr_resets_state ==
    /\ debounce_timer' = k_timer_start(DEBOUNCE_MS)
    /\ btn_state' = BTN_IDLE
    /\ UNCHANGED << factory_reset_timer, work_q, transitions >>

\* button_isr: restarts the debounce timer, nothing else
button_isr ==
    /\ debounce_timer' = k_timer_start(DEBOUNCE_MS)
    /\ UNCHANGED << btn_state, factory_reset_timer, work_q, transitions >>

\* A physical edge on the button pin and the interrupt it raises
Edge ==
    /\ button_cb_registered
    /\ level \/ btn_state # BTN_IDLE \/ Len(transitions) < MaxEvents
    /\ level' = ~level
    /\ button_isr
    /\ quiet' = 0
    /\ burst' = IF burst.edges = 0 \/ burst.settles > 0
                THEN [edges |-> 1, first |-> ~level, settles |-> 0]
                ELSE [burst EXCEPT !.edges = Min(@ + 1, 3)]
    /\ last_op' = Op("button_isr", btn_state, ~level)
    /\ UNCHANGED << user_callback, work_running, held, press_mark, expiries, executions,
                    calls, resets, zb_sched >>
    /\ UNCHANGED relayVars
    /\ UNCHANGED voltageVars
    /\ UNCHANGED mainVars
    /\ UNCHANGED batteryVars
    /\ UNCHANGED samplerVars

\* One kernel tick passes; an expired timer runs its handler first
Tick ==
    /\ ~Expired(debounce_timer)
    /\ ~Expired(factory_reset_timer)
    /\ ~Expired(adc_work.timeout)
    /\ ~Expired(dk.timer)
    /\ dk' = [dk EXCEPT !.timer = TickTimer(@)]
    /\ adc_work' = [adc_work EXCEPT !.timeout = TickTimer(@)]
    /\ debounce_timer' = TickTimer(debounce_timer)
    /\ factory_reset_timer' = TickTimer(factory_reset_timer)
    /\ quiet' = Min(quiet + 1, K_MSEC(DEBOUNCE_MS))
    /\ held' = IF btn_state = BTN_PRESSED
               THEN Min(held + 1, K_MSEC(FACTORY_RESET_TIME_MS))
               ELSE held
    /\ last_op' = Op("tick", btn_state, level)
    /\ UNCHANGED << level, btn_state, user_callback, work_q, work_running,
                    burst, press_mark, expiries, transitions, executions, calls, resets,
                    zb_sched >>
    /\ UNCHANGED relayVars
    /\ UNCHANGED voltageVars
    /\ UNCHANGED << main_pc, button_cb_registered, zigbee_started, adc_ready >>
    /\ UNCHANGED batteryVars
    /\ UNCHANGED samplerRest

\* debounce_timer_handler: sample the level now, feed the classifier
debounce_timer_handler ==
    /\ Expired(debounce_timer)
    /\ LET pressed == button_get_state
           r == process_button_state(btn_state, pressed)
       IN /\ btn_state' = r.state
          /\ factory_reset_timer' = ApplyTimer(r.timer, factory_reset_timer)
          /\ IF r.submit # NoWork
             THEN Submit(r.submit)
             ELSE UNCHANGED << work_q, transitions >>
          /\ held' = IF btn_state = BTN_IDLE /\ r.state = BTN_PRESSED
                     THEN 0 ELSE held
          /\ press_mark' = IF btn_state = BTN_IDLE /\ r.state = BTN_PRESSED
                           THEN Len(transitions) ELSE press_mark
          /\ last_op' = Op("debounce_timer_handler", btn_state, pressed)
    /\ debounce_timer' = TimerStopped
    /\ burst' = [burst EXCEPT !.settles = Min(@ + 1, 2)]
    /\ UNCHANGED << level, user_callback, work_running, quiet, executions,
                    calls, resets, zb_sched, expiries >>
    /\ UNCHANGED relayVars
    /\ UNCHANGED voltageVars
    /\ UNCHANGED mainVars
    /\ UNCHANGED batteryVars
    /\ UNCHANGED samplerVars

\* Variant: the expiry is acted on whatever the state
factory_reset_timer_expiry_unchecked(st) ==
    [state |-> BTN_LONG_PRESS, submit |-> factory_reset_work]

\* The body of factory_reset_timer_handler in state st: the next state and
\* the work item submitted
factory_reset_timer_expiry(st) ==
    IF st = BTN_PRESSED
    THEN [state |-> BTN_LONG_PRESS, submit |-> factory_reset_work]
    ELSE [state |-> st, submit |-> NoWork]

\* factory_reset_timer_handler: the hold timer expired
factory_reset_timer_handler ==
    /\ Expired(factory_reset_timer)
    /\ factory_reset_timer' = TimerStopped
    /\ LET r == factory_reset_timer_expiry(btn_state)
       IN /\ btn_state' = r.state
          /\ IF r.submit # NoWork
             THEN Submit(r.submit)
             ELSE UNCHANGED << work_q, transitions >>
    /\ expiries' = IF btn_state = BTN_PRESSED THEN expiries + 1 ELSE expiries
    /\ last_op' = Op("factory_reset_timer_handler", btn_state, level)
    /\ UNCHANGED << level, debounce_timer, user_callback, work_running, quiet,
                    burst, held, press_mark, executions, calls, resets,
                    zb_sched >>
    /\ UNCHANGED relayVars
    /\ UNCHANGED voltageVars
    /\ UNCHANGED mainVars
    /\ UNCHANGED batteryVars
    /\ UNCHANGED samplerVars

----------------------------------------------------------------------------
(* Action dispatcher: the work-queue thread and the handlers it runs *)

\* The queue thread takes the next item; the item is no longer pending
work_queue_main ==
    /\ work_running = NoItem
    /\ work_q # << >>
    /\ work_running' = work_q_take(work_q).item
    /\ work_q' = work_q_take(work_q).rest
    /\ adc_work' = IF work_q_take(work_q).item.work = adc_work_item
                   THEN [adc_work EXCEPT !.running = TRUE]
                   ELSE adc_work
    /\ last_op' = Op("work_queue_main", btn_state, level)
    /\ UNCHANGED << level, btn_state, debounce_timer, factory_reset_timer,
                    user_callback, quiet, burst, held, press_mark, expiries, transitions,
                    executions, calls, resets, zb_sched >>
    /\ UNCHANGED relayVars
    /\ UNCHANGED voltageVars
    /\ UNCHANGED mainVars
    /\ UNCHANGED batteryVars
    /\ UNCHANGED samplerRest

\* The calls short_press_work_handler makes, in order
short_press_calls(cb) ==
    << "user_input_indicate", "zigbee_device_toggle_relay" >>
        \o (IF cb THEN << "user_callback(false)" >> ELSE << >>)

short_press_work_handler ==
    /\ work_running.work = short_press_work
    /\ calls' = short_press_calls(user_callback)
    /\ RelayEffect("toggle", ~relay_state, zigbee_device_toggle_relay)
    /\ executions' = Append(executions, work_running.seq)
    /\ work_running' = NoItem
    /\ last_op' = Op("short_press_work_handler", btn_state, relay_state)
    /\ UNCHANGED << level, btn_state, debounce_timer, factory_reset_timer,
                    user_callback, work_q, quiet, burst, held, press_mark, expiries,
                    transitions, resets, zb_sched >>
    /\ UNCHANGED voltageVars
    /\ UNCHANGED mainVars
    /\ UNCHANGED batteryVars
    /\ UNCHANGED samplerVars

\* Variant: the reset is scheduled before the callback is told
factory_reset_calls_swapped(cb) ==
    << "ZB_SCHEDULE_APP_CALLBACK(do_factory_reset)" >>
        \o (IF cb THEN << "user_callback(true)" >> ELSE << >>)

\* The calls factory_reset_work_handler makes, in order
factory_reset_calls(cb) ==
    (IF cb THEN << "user_callback(true)" >> ELSE << >>)
        \o << "ZB_SCHEDULE_APP_CALLBACK(do_factory_reset)" >>

factory_reset_work_handler ==
    /\ work_running.work = factory_reset_work
    /\ Len(zb_sched) < MaxSched
    /\ calls' = factory_reset_calls(user_callback)
    /\ zb_sched' = Append(zb_sched, "do_factory_reset")
    /\ executions' = Append(executions, work_running.seq)
    /\ work_running' = NoItem
    /\ last_op' = Op("factory_reset_work_handler", btn_state, relay_state)
    /\ UNCHANGED << level, btn_state, debounce_timer, factory_reset_timer,
                    user_callback, work_q, quiet, burst, held, press_mark, expiries,
                    transitions, resets >>
    /\ UNCHANGED relayVars
    /\ UNCHANGED voltageVars
    /\ UNCHANGED mainVars
    /\ UNCHANGED batteryVars
    /\ UNCHANGED samplerVars

\* do_factory_reset, run by the ZBOSS scheduler
do_factory_reset ==
    /\ zb_sched # << >>
    /\ Head(zb_sched) = "do_factory_reset"
    /\ zb_sched' = Tail(zb_sched)
    /\ resets' = resets + 1
    /\ last_op' = Op("do_factory_reset", btn_state, level)
    /\ UNCHANGED << calls >>
    /\ UNCHANGED buttonVars
    /\ UNCHANGED relayVars
    /\ UNCHANGED voltageVars
    /\ UNCHANGED mainVars
    /\ UNCHANGED batteryVars
    /\ UNCHANGED samplerVars

----------------------------------------------------------------------------
(* main.c's button path (CONFIG_DK_LIBRARY): dk_button_handler and its own
   factory_reset_timer and factory_reset_pending *)

NoDk == [timer |-> TimerStopped, pending |-> FALSE, outcomes |-> << >>]

\* Variant: the release toggles the relay whatever factory_reset_pending is
dk_button_handler_always_toggles(d, pressed) ==
    IF pressed
    THEN [d EXCEPT !.timer = k_timer_start(FACTORY_RESET_TIME_MS)]
    ELSE [timer    |-> k_timer_stop,
          pending  |-> FALSE,
          outcomes |-> Append(d.outcomes, "toggle")]

\* dk_button_handler(button_state, has_changed) for a change of button 1 to
\* `pressed`: a press starts the timer; a release stops it, toggles the
\* relay unless factory_reset_pending, and clears factory_reset_pending
dk_button_handler(d, pressed) ==
    IF pressed
    THEN [d EXCEPT !.timer = k_timer_start(FACTORY_RESET_TIME_MS)]
    ELSE [timer    |-> k_timer_stop,
          pending  |-> FALSE,
          outcomes |-> IF ~d.pending
                       THEN Append(d.outcomes, "toggle") ELSE d.outcomes]

\* A change of the button delivered to both button paths: to
\* dk_button_handler, and as a settled sample to process_button_state
ButtonChange ==
    /\ button_cb_registered
    /\ ~Expired(factory_reset_timer)
    /\ ~Expired(dk.timer)
    /\ level \/ btn_state # BTN_IDLE \/ Len(transitions) < MaxEvents
    /\ level' = ~level
    /\ LET pressed == ~level
           d == dk_button_handler(dk, pressed)
           r == process_button_state(btn_state, pressed)
       IN /\ dk' = d
          /\ IF Len(d.outcomes) > Len(dk.outcomes)
             THEN RelayEffect("toggle", ~relay_state, zigbee_device_toggle_relay)
             ELSE UNCHANGED relayVars
          /\ btn_state' = r.state
          /\ factory_reset_timer' = ApplyTimer(r.timer, factory_reset_timer)
          /\ IF r.submit # NoWork
             THEN Submit(r.submit)
             ELSE UNCHANGED << work_q, transitions >>
          /\ last_op' = Op("dk_button_handler", btn_state, pressed)
    /\ UNCHANGED << debounce_timer, user_callback, work_running, quiet, burst,
                    held, press_mark, expiries, executions, calls, resets,
                    zb_sched >>
    /\ UNCHANGED << main_pc, button_cb_registered, zigbee_started, adc_ready >>
    /\ UNCHANGED voltageVars
    /\ UNCHANGED batteryVars
    /\ UNCHANGED samplerVars

\* main.c's factory_reset_timer_handler: sets factory_reset_pending and
\* schedules do_factory_reset
dk_factory_reset_timer_handler ==
    /\ Expired(dk.timer)
    /\ Len(zb_sched) < MaxSched
    /\ dk' = [timer    |-> TimerStopped,
              pending  |-> TRUE,
              outcomes |-> Append(dk.outcomes, "reset")]
    /\ zb_sched' = Append(zb_sched, "do_factory_reset")
    /\ last_op' = Op("dk_factory_reset_timer_handler", btn_state, level)
    /\ UNCHANGED << calls, resets >>
    /\ UNCHANGED << main_pc, button_cb_registered, zigbee_started, adc_ready >>
    /\ UNCHANGED buttonVars
    /\ UNCHANGED relayVars
    /\ UNCHANGED voltageVars
    /\ UNCHANGED batteryVars
    /\ UNCHANGED samplerVars

\* The set-up of the Zigbee device is done: the relay API may be called
RelayReady == main_pc \in {"adc_reader_init", "sleep"}

\* A call of zigbee_device_set_relay(on)
relay_set ==
    /\ RelayReady
    /\ \E on \in BOOLEAN :
         /\ RelayEffect("set", on, zigbee_device_set_relay(on))
         /\ last_op' = Op("zigbee_device_set_relay", btn_state, on)
    /\ UNCHANGED << calls, resets, zb_sched >>
    /\ UNCHANGED buttonVars
    /\ UNCHANGED voltageVars
    /\ UNCHANGED mainVars
    /\ UNCHANGED batteryVars
    /\ UNCHANGED samplerVars

\* A call of zigbee_device_toggle_relay()
relay_toggle ==
    /\ RelayReady
    /\ RelayEffect("toggle", ~relay_state, zigbee_device_toggle_relay)
    /\ last_op' = Op("zigbee_device_toggle_relay", btn_state, relay_state)
    /\ UNCHANGED << calls, resets, zb_sched >>
    /\ UNCHANGED buttonVars
    /\ UNCHANGED voltageVars
    /\ UNCHANGED mainVars
    /\ UNCHANGED batteryVars
    /\ UNCHANGED samplerVars

----------------------------------------------------------------------------
(* Threshold reporter *)

\* Millivolt readings handed to zigbee_device_update_voltage
VoltageInputs == {-49, 50, 3000, 3300, 3320, 3370}

\* Arguments at the ends of the zb_int16_t range of centivolts, and near 0
WideInputs == {-327680, -50, 327630, 327670}

\* C integer division truncates toward zero
CDiv(a, b) == IF a >= 0 THEN a \div b ELSE -((-a) \div b)

\* Conversion to zb_int16_t (two's complement)
ToInt16(x) == ((x + 32768) % 65536) - 32768

Abs(x) == IF x < 0 THEN -x ELSE x

\* Variant: the quotient is rounded down instead of toward zero
centivolts_floor(voltage_mv) == ToInt16(voltage_mv \div 10)

\* new_value = (zb_int16_t)(voltage_mv / 10)
centivolts(voltage_mv) == ToInt16(CDiv(voltage_mv, 10))

\* diff = new_value - voltage_last_reported; if (diff < 0) diff = -diff;
voltage_diff(new_value, last) ==
    LET diff == ToInt16(new_value - last)
    IN IF diff < 0 THEN ToInt16(-diff) ELSE diff

\* Variant: a change of exactly the threshold is not reported
threshold_crossed_strict(diff) == diff > VOLTAGE_REPORT_THRESHOLD_CV

\* if (diff >= VOLTAGE_REPORT_THRESHOLD_CV)
threshold_crossed(diff) == diff >= VOLTAGE_REPORT_THRESHOLD_CV

\* Variant: the report is scheduled whatever the join flag
update_voltage_ungated(voltage_mv, last, joined) ==
    LET new_value == centivolts(voltage_mv)
        diff == voltage_diff(new_value, last)
    IN [present  |-> new_value,
        last     |-> IF threshold_crossed(diff) THEN new_value ELSE last,
        schedule |-> threshold_crossed(diff)]

\* Variant: voltage_last_reported is assigned only when a report is scheduled
update_voltage_last_on_report(voltage_mv, last, joined) ==
    LET new_value == centivolts(voltage_mv)
        diff == voltage_diff(new_value, last)
    IN [present  |-> new_value,
        last     |-> IF threshold_crossed(diff) /\ joined
                     THEN new_value ELSE last,
        schedule |-> threshold_crossed(diff) /\ joined]

\* zigbee_device_update_voltage(voltage_mv) with last reported value `last`
\* and join flag `joined`: the new tracker values and whether
\* voltage_report_cb is scheduled
update_voltage(voltage_mv, last, joined) ==
    LET new_value == centivolts(voltage_mv)
        diff == voltage_diff(new_value, last)
    IN [present  |-> new_value,
        last     |-> IF threshold_crossed(diff) THEN new_value ELSE last,
        schedule |-> threshold_crossed(diff) /\ joined]

\* The worked example: readings of 3.30 V, 3.32 V, 3.37 V, 3.00 V
ExampleMv == << 3300, 3320, 3370, 3000 >>

NoUpdate == [mv |-> 0, joined |-> FALSE, last_before |-> 0, present |-> 0,
             last_after |-> 0, sched |-> FALSE, called |-> FALSE]

NoReport == [value |-> 0, last |-> 0, joined |-> FALSE, any |-> FALSE]

\* Follows the calls from the initial state while they are made joined and
\* read ExampleMv in order; flags records which of them scheduled a report
FollowExample(ex, voltage_mv, joined, sched) ==
    IF /\ ex.on
       /\ joined
       /\ Len(ex.flags) < Len(ExampleMv)
       /\ voltage_mv = ExampleMv[Len(ex.flags) + 1]
    THEN [on |-> TRUE, flags |-> Append(ex.flags, sched)]
    ELSE [on |-> FALSE, flags |-> << >>]

\* zigbee_device_update_voltage(voltage_mv), the argument drawn from inputs
UpdateVoltage(inputs) ==
    /\ \E voltage_mv \in inputs :
         LET r == update_voltage(voltage_mv, voltage_last_reported, network_joined)
         IN /\ r.schedule => Len(zb_sched) < MaxSched
            /\ voltage_present_value' = r.present
            /\ voltage_last_reported' = r.last
            /\ zb_sched' = IF r.schedule
                           THEN Append(zb_sched, "voltage_report_cb")
                           ELSE zb_sched
            /\ last_update' = [mv          |-> voltage_mv,
                               joined      |-> network_joined,
                               last_before |-> voltage_last_reported,
                               present     |-> voltage_present_value',
                               last_after  |-> voltage_last_reported',
                               sched       |-> Len(zb_sched') > Len(zb_sched),
                               called      |-> TRUE]
            /\ example' = FollowExample(example, voltage_mv, network_joined,
                                        Len(zb_sched') > Len(zb_sched))
            /\ emitted' = IF r.schedule THEN r.present ELSE emitted
    /\ last_op' = Op("zigbee_device_update_voltage", btn_state, network_joined)
    /\ UNCHANGED << network_joined, ever_joined, last_signal, sent, calls,
                    resets >>
    /\ UNCHANGED buttonVars
    /\ UNCHANGED relayVars
    /\ UNCHANGED mainVars
    /\ UNCHANGED batteryVars
    /\ UNCHANGED samplerVars

\* zigbee_device_update_voltage(voltage_mv) with a reading of the battery
zigbee_device_update_voltage == UpdateVoltage(VoltageInputs)

\* zigbee_device_update_voltage(voltage_mv) with any argument whose
\* centivolt value fits zb_int16_t
zigbee_device_update_voltage_wide == UpdateVoltage(WideInputs)

\* zigbee_device_get_voltage_centivolts()
zigbee_device_get_voltage_centivolts == voltage_present_value

\* zigbee_device_set_network_joined(joined)
zigbee_device_set_network_joined(joined) == joined

Signals == {"ZB_BDB_SIGNAL_DEVICE_FIRST_START", "ZB_BDB_SIGNAL_DEVICE_REBOOT",
            "ZB_BDB_SIGNAL_STEERING", "ZB_ZDO_SIGNAL_LEAVE",
            "ZB_COMMON_SIGNAL_CAN_SLEEP"}
Statuses == {"RET_OK", "RET_ERROR"}

\* No signal handled yet; signals are recorded only where traced is set
NoSignal == [traced |-> FALSE, sig |-> "none", status |-> "none",
             before |-> FALSE]

\* Variant: a failed reboot or steering signal clears the join flag
signal_joined_failure_clears(sig, status, joined) ==
    CASE sig \in {"ZB_BDB_SIGNAL_DEVICE_REBOOT", "ZB_BDB_SIGNAL_STEERING"} ->
            zigbee_device_set_network_joined(status = "RET_OK")
      [] sig = "ZB_ZDO_SIGNAL_LEAVE" -> zigbee_device_set_network_joined(FALSE)
      [] OTHER -> joined

\* The join flag after zboss_signal_handler has handled (sig, status)
signal_joined(sig, status, joined) ==
    CASE sig \in {"ZB_BDB_SIGNAL_DEVICE_REBOOT", "ZB_BDB_SIGNAL_STEERING"} ->
            IF status = "RET_OK"
            THEN zigbee_device_set_network_joined(TRUE)
            ELSE joined
      [] sig = "ZB_ZDO_SIGNAL_LEAVE" -> zigbee_device_set_network_joined(FALSE)
      [] OTHER -> joined

zboss_signal_handler ==
    /\ zigbee_started
    /\ \E sig \in Signals, status \in Statuses :
         /\ network_joined' = signal_joined(sig, status, network_joined)
         /\ last_op' = Op("zboss_signal_handler", btn_state,
                          signal_joined(sig, status, network_joined))
         /\ last_signal' = IF last_signal.traced
                           THEN [traced |-> TRUE, sig |-> sig,
                                 status |-> status, before |-> network_joined]
                           ELSE last_signal
    /\ ever_joined' = (ever_joined \/ network_joined')
    /\ UNCHANGED << voltage_present_value, voltage_last_reported, last_update,
                    example, sent, emitted, zb_sched, calls, resets >>
    /\ UNCHANGED buttonVars
    /\ UNCHANGED relayVars
    /\ UNCHANGED mainVars
    /\ UNCHANGED batteryVars
    /\ UNCHANGED samplerVars

\* Variant: the report carries the value of the last threshold crossing
send_voltage_report_last_reported ==
    [value |-> voltage_last_reported,
     last  |-> voltage_last_reported,
     joined |-> network_joined,
     any |-> TRUE]

\* send_voltage_report(bufid): the report carries voltage_present_value
send_voltage_report ==
    [value |-> voltage_present_value,
     last  |-> voltage_last_reported,
     joined |-> network_joined,
     any |-> TRUE]

\* Variant: with no buffer the callback schedules itself again
report_cb_requeues(bufid) == [send |-> bufid # 0, requeue |-> bufid = 0]

\* The body of voltage_report_cb when zb_buf_get_out() returned bufid:
\* whether the report is sent and whether the callback is scheduled again
report_cb(bufid) == [send |-> bufid # 0, requeue |-> FALSE]

\* voltage_report_cb(0), run by the ZBOSS scheduler; zb_buf_get_out() may
\* return no buffer
voltage_report_cb ==
    /\ zb_sched # << >>
    /\ Head(zb_sched) = "voltage_report_cb"
    /\ \E bufid \in {0, 1} :
         LET r == report_cb(bufid)
         IN /\ sent' = IF r.send THEN send_voltage_report ELSE sent
            /\ zb_sched' = IF r.requeue
                           THEN Append(Tail(zb_sched), "voltage_report_cb")
                           ELSE Tail(zb_sched)
            /\ last_op' = Op("voltage_report_cb", btn_state, bufid # 0)
    /\ UNCHANGED << voltage_present_value, voltage_last_reported, network_joined,
                    last_update, example, ever_joined, last_signal, emitted,
                    calls, resets >>
    /\ UNCHANGED buttonVars
    /\ UNCHANGED relayVars
    /\ UNCHANGED mainVars
    /\ UNCHANGED batteryVars
    /\ UNCHANGED samplerVars

----------------------------------------------------------------------------
(* ZCL device callback *)

RELAY_SWITCH_ENDPOINT == 1
VOLTAGE_SENSOR_ENDPOINT == 2

Endpoints == {RELAY_SWITCH_ENDPOINT, VOLTAGE_SENSOR_ENDPOINT}

CallbackIds == {"ZB_ZCL_SET_ATTR_VALUE_CB_ID", "ZB_ZCL_OTA_UPGRADE_VALUE_CB_ID",
                "ZB_ZCL_IDENTIFY_EFFECT_CB_ID"}

\* The callback parameters the stack hands over: the callback id, whether a
\* set-attribute callback is for the OnOff attribute of the On/Off cluster,
\* the endpoint, the value, and the status field as the stack left it
ZclParams ==
    [cb_id : CallbackIds, on_off : BOOLEAN, endpoint : Endpoints,
     value : BOOLEAN, status : Statuses]

\* zcl_on_off_handler(bufid): the value returned, the status field and the
\* relay after it
zcl_on_off_handler(p) ==
    IF p.cb_id = "ZB_ZCL_SET_ATTR_VALUE_CB_ID" /\ p.on_off
    THEN IF p.endpoint = RELAY_SWITCH_ENDPOINT
         THEN [ret |-> TRUE, status |-> "RET_OK",
               relay_state |-> p.value, relay_gpio |-> relay_control_set(p.value)]
         ELSE [ret |-> FALSE, status |-> "RET_ERROR",
               relay_state |-> relay_state, relay_gpio |-> relay_gpio]
    ELSE [ret |-> FALSE, status |-> p.status,
          relay_state |-> relay_state, relay_gpio |-> relay_gpio]

\* The body of zcl_device_cb(bufid) in a build with (fota) or without
\* CONFIG_ZIGBEE_FOTA: what zcl_on_off_handler did not handle goes to the
\* firmware update library or is marked not implemented
device_cb(p, fota) ==
    LET h == zcl_on_off_handler(p)
    IN IF h.ret THEN h
       ELSE IF fota /\ p.cb_id = "ZB_ZCL_OTA_UPGRADE_VALUE_CB_ID"
       THEN [h EXCEPT !.status = "zigbee_fota_zcl_cb"]
       ELSE [h EXCEPT !.status = "RET_NOT_IMPLEMENTED"]

\* zcl_device_cb(bufid), called by the stack for a ZCL command
zcl_device_cb ==
    /\ zigbee_started
    /\ \E p \in ZclParams, fota \in BOOLEAN :
         LET r == device_cb(p, fota)
         IN /\ relay_state' = r.relay_state
            /\ relay_gpio' = r.relay_gpio
            /\ last_zcl' = [called      |-> TRUE,
                            on_off      |-> p.cb_id = "ZB_ZCL_SET_ATTR_VALUE_CB_ID"
                                            /\ p.on_off,
                            endpoint    |-> p.endpoint,
                            value       |-> p.value,
                            status      |-> r.status,
                            before      |-> relay_state,
                            before_gpio |-> relay_gpio]
            /\ last_op' = Op("zcl_device_cb", btn_state, p.value)
    /\ UNCHANGED << last_relay, relay_ops, calls, resets, zb_sched >>
    /\ UNCHANGED buttonVars
    /\ UNCHANGED voltageVars
    /\ UNCHANGED mainVars
    /\ UNCHANGED batteryVars
    /\ UNCHANGED samplerVars

----------------------------------------------------------------------------
(* The relay written from two threads: zigbee_device_set_relay on the work
   queue and zcl_on_off_handler on the stack's thread, statement by statement.
   Neither takes a lock; relay_ctx is not volatile, so the argument of
   relay_control_set is the value just stored (kept in a register) or the
   field read again. *)

RelayFrame ==
    /\ UNCHANGED << last_relay, last_zcl, calls, resets, zb_sched >>
    /\ UNCHANGED buttonVars
    /\ UNCHANGED voltageVars
    /\ UNCHANGED mainVars
    /\ UNCHANGED batteryVars
    /\ UNCHANGED samplerVars

\* The levels relay_control_set(relay_ctx.relay_state) can be called with
\* after the thread stored val
OutputLevels(val) == {val, relay_state}

\* zigbee_device_set_relay(on), first statement: relay_ctx.relay_state = on
\* (on is !relay_ctx.relay_state when called by zigbee_device_toggle_relay)
set_relay_store ==
    /\ RelayReady
    /\ relay_ops.wq.pc = "idle"
    /\ \E on \in BOOLEAN :
         /\ relay_state' = on
         /\ relay_ops' = [relay_ops EXCEPT !.wq = [pc |-> "output", val |-> on]]
         /\ last_op' = Op("set_relay_store", btn_state, on)
    /\ UNCHANGED relay_gpio
    /\ RelayFrame

\* zigbee_device_set_relay(on), second statement: relay_control_set(...)
set_relay_output ==
    /\ relay_ops.wq.pc = "output"
    /\ \E lvl \in OutputLevels(relay_ops.wq.val) :
         /\ relay_gpio' = relay_control_set(lvl)
         /\ last_op' = Op("set_relay_output", btn_state, lvl)
    /\ relay_ops' = [relay_ops EXCEPT !.wq = NoRelayOp]
    /\ UNCHANGED relay_state
    /\ RelayFrame

\* zcl_on_off_handler for the relay endpoint, the store:
\* relay_ctx.relay_state = (new_value == ZB_TRUE)
zcl_on_off_store ==
    /\ zigbee_started
    /\ relay_ops.zb.pc = "idle"
    /\ \E new_value \in BOOLEAN :
         /\ relay_state' = new_value
         /\ relay_ops' = [relay_ops EXCEPT
                             !.zb = [pc |-> "output", val |-> new_value]]
         /\ last_op' = Op("zcl_on_off_store", btn_state, new_value)
    /\ UNCHANGED relay_gpio
    /\ RelayFrame

\* zcl_on_off_handler for the relay endpoint, the output:
\* relay_control_set(relay_ctx.relay_state)
zcl_on_off_output ==
    /\ relay_ops.zb.pc = "output"
    /\ \E lvl \in OutputLevels(relay_ops.zb.val) :
         /\ relay_gpio' = relay_control_set(lvl)
         /\ last_op' = Op("zcl_on_off_output", btn_state, lvl)
    /\ relay_ops' = [relay_ops EXCEPT !.zb = NoRelayOp]
    /\ UNCHANGED relay_state
    /\ RelayFrame

----------------------------------------------------------------------------
(* Analog input: oversampled read and conversion to millivolts *)

EIO == 5
ENODEV == 19
ENOTSUP == 134

\* Raw codes adc_read_raw can deliver (3.00 V and 4.19 V at VDDH)
RawValues == {2048, 2867}

\* Outcomes of one adc_read_raw call: an error, or 0 and a raw code
ReadOutcomes ==
    {[err |-> -EIO, raw |-> 0]} \cup {[err |-> 0, raw |-> v] : v \in RawValues}

\* The reads of one adc_read_voltage_mv call, in order
SampleRuns == [1..CONFIG_ADC_OVERSAMPLE_COUNT -> ReadOutcomes]

\* The loop of adc_read_voltage_mv over reads i..Len(samples), from the
\* running totals acc = [sum, valid_samples]
RECURSIVE oversample(_, _, _)
oversample(samples, i, acc) ==
    IF i > Len(samples) THEN acc
    ELSE oversample(samples, i + 1,
                    IF samples[i].err = 0
                    THEN [sum |-> acc.sum + samples[i].raw,
                          valid_samples |-> acc.valid_samples + 1]
                    ELSE acc)

\* adc_raw_to_millivolts_dt: raw * ref_mV / gain >> resolution, with the
\* channel's calibration (0.6 V internal reference, gain 1/2, 12 bits)
adc_raw_to_millivolts_dt(raw) == (raw * 600 * 2) \div 4096

\* Variant: a failed read counts as a sample of 0
adc_read_voltage_mv_counts_failed(samples, conv_err) ==
    LET acc == oversample(samples, 1, [sum |-> 0, valid_samples |-> 0])
        avg_raw == ToInt16(CDiv(acc.sum, Len(samples)))
    IN IF conv_err # 0 THEN [err |-> conv_err, mv |-> 0]
       ELSE [err |-> 0, mv |-> adc_raw_to_millivolts_dt(avg_raw) * 5]

\* Variant: one failed read fails the whole sample
adc_read_voltage_mv_needs_all(samples, conv_err) ==
    LET acc == oversample(samples, 1, [sum |-> 0, valid_samples |-> 0])
        avg_raw == ToInt16(CDiv(acc.sum, acc.valid_samples))
    IN IF acc.valid_samples < Len(samples) THEN [err |-> -EIO, mv |-> 0]
       ELSE IF conv_err # 0 THEN [err |-> conv_err, mv |-> 0]
       ELSE [err |-> 0, mv |-> adc_raw_to_millivolts_dt(avg_raw) * 5]

\* adc_read_voltage_mv(&voltage_mv) when the reads deliver `samples` and the
\* conversion returns conv_err: the return value and *voltage_mv
adc_read_voltage_mv(samples, conv_err) ==
    LET acc == oversample(samples, 1, [sum |-> 0, valid_samples |-> 0])
        avg_raw == ToInt16(CDiv(acc.sum, acc.valid_samples))
    IN IF acc.valid_samples = 0 THEN [err |-> -EIO, mv |-> 0]
       ELSE IF conv_err # 0 THEN [err |-> conv_err, mv |-> 0]
       ELSE [err |-> 0, mv |-> adc_raw_to_millivolts_dt(avg_raw) * 5]

----------------------------------------------------------------------------
(* Battery reporter: zigbee_device_update_battery, a threshold reporter in  *)
(* units of 100 mV with a derived percentage                               *)

BATTERY_REPORT_THRESHOLD == 5
BATTERY_EMPTY_MV == 3000
BATTERY_FULL_MV == 4200

\* Battery voltage attribute: units of 100 mV
battery_decivolts(voltage_mv) == CDiv(voltage_mv, 100)

\* Variant: the line is extended beyond the two end points
battery_half_percent_unclamped(voltage_mv) ==
    CDiv((voltage_mv - BATTERY_EMPTY_MV) * 200,
         BATTERY_FULL_MV - BATTERY_EMPTY_MV)

\* Battery percentage attribute: half-percent units, linear between empty
\* and full, clamped
battery_half_percent(voltage_mv) ==
    IF voltage_mv <= BATTERY_EMPTY_MV THEN 0
    ELSE IF voltage_mv >= BATTERY_FULL_MV THEN 200
    ELSE CDiv((voltage_mv - BATTERY_EMPTY_MV) * 200,
              BATTERY_FULL_MV - BATTERY_EMPTY_MV)

\* zigbee_device_update_battery(voltage_mv) with last reported value `last`
\* and join flag `joined`
update_battery(voltage_mv, last, joined) ==
    LET new_value == battery_decivolts(voltage_mv)
        crossed == Abs(new_value - last) >= BATTERY_REPORT_THRESHOLD
    IN [voltage    |-> new_value,
        percentage |-> battery_half_percent(voltage_mv),
        last       |-> IF crossed THEN new_value ELSE last,
        schedule   |-> crossed /\ joined]

NoBattery == [mv |-> 0, called |-> FALSE]

\* What a call of zigbee_device_update_battery(voltage_mv) leaves behind
BatteryEffect(voltage_mv) ==
    LET u == update_battery(voltage_mv, battery_last_reported, network_joined)
    IN /\ u.schedule => Len(zb_sched) < MaxSched
       /\ battery_voltage' = u.voltage
       /\ battery_percentage' = u.percentage
       /\ battery_last_reported' = u.last
       /\ zb_sched' = IF u.schedule
                      THEN Append(zb_sched, "battery_report_cb")
                      ELSE zb_sched
       /\ last_battery' = [mv |-> voltage_mv, called |-> TRUE]

\* Millivolt readings handed to zigbee_device_update_battery
BatteryInputs ==
    {-100, 0, 2999, 3000, 3001, 3006, 3300, 3600, 3900, 4199, 4200, 4201, 5995}

\* A call of zigbee_device_update_battery(voltage_mv)
zigbee_device_update_battery ==
    /\ \E voltage_mv \in BatteryInputs : BatteryEffect(voltage_mv)
    /\ last_op' = Op("zigbee_device_update_battery", btn_state, network_joined)
    /\ UNCHANGED << calls, resets >>
    /\ UNCHANGED buttonVars
    /\ UNCHANGED relayVars
    /\ UNCHANGED voltageVars
    /\ UNCHANGED mainVars
    /\ UNCHANGED samplerVars

\* The report callback, run by the ZBOSS scheduler
battery_report_cb ==
    /\ zb_sched # << >>
    /\ Head(zb_sched) = "battery_report_cb"
    /\ zb_sched' = Tail(zb_sched)
    /\ last_op' = Op("battery_report_cb", btn_state, network_joined)
    /\ UNCHANGED << calls, resets >>
    /\ UNCHANGED buttonVars
    /\ UNCHANGED relayVars
    /\ UNCHANGED voltageVars
    /\ UNCHANGED mainVars
    /\ UNCHANGED batteryVars
    /\ UNCHANGED samplerVars

----------------------------------------------------------------------------
(* Periodic sampler: the delayable work item adc_work on the system work   *)
(* queue                                                                   *)

K_NO_WAIT == 0

\* k_work_init_delayable(&adc_work, adc_work_handler): all flags cleared
k_work_init_delayable ==
    [timeout |-> TimerStopped, running |-> FALSE, canceling |-> FALSE]

\* k_work_schedule(&adc_work, delay): does nothing unless the item is idle or
\* only running; with no delay the item is queued at once
k_work_schedule(w, q, delay_ms) ==
    IF w.timeout.armed \/ IsPending(q, adc_work_item) \/ w.canceling
    THEN [work |-> w, q |-> q]
    ELSE IF delay_ms = K_NO_WAIT
         THEN [work |-> w, q |-> k_work_submit(q, adc_work_item, 0)]
         ELSE [work |-> [w EXCEPT !.timeout = k_timer_start(delay_ms)], q |-> q]

\* The queue without the item `work`
RECURSIVE queue_remove(_, _)
queue_remove(q, work) ==
    IF q = << >> THEN << >>
    ELSE IF Head(q).work = work THEN queue_remove(Tail(q), work)
    ELSE << Head(q) >> \o queue_remove(Tail(q), work)

\* k_work_cancel_delayable(&adc_work): the timeout is aborted and the item
\* taken off the queue; an item whose handler is running is marked canceling
\* until the handler returns
k_work_cancel_delayable(w, q) ==
    [work |-> [timeout   |-> k_timer_stop,
               running   |-> w.running,
               canceling |-> w.running \/ w.canceling],
     q    |-> queue_remove(q, adc_work_item)]

\* Variant: a second start initialises and schedules the work item again
adc_start_unguarded(enabled, w, q) ==
    LET sch == k_work_schedule(k_work_init_delayable, q, K_NO_WAIT)
    IN [ret |-> 0, enabled |-> TRUE, work |-> sch.work, q |-> sch.q]

\* adc_start_periodic_reading()
adc_start(enabled, w, q) ==
    IF enabled
    THEN [ret |-> 0, enabled |-> enabled, work |-> w, q |-> q]
    ELSE LET sch == k_work_schedule(k_work_init_delayable, q, K_NO_WAIT)
         IN [ret |-> 0, enabled |-> TRUE, work |-> sch.work, q |-> sch.q]

\* adc_stop_periodic_reading()
adc_stop(w, q) ==
    LET c == k_work_cancel_delayable(w, q)
    IN [enabled |-> FALSE, work |-> c.work, q |-> c.q]

NoTick == [ran |-> FALSE, failed |-> 0, err |-> 0, mv |-> 0, called |-> FALSE,
           kept |-> TRUE, resched |-> FALSE, after_failed |-> FALSE,
           good |-> << >>]

\* The raw codes of the reads that succeeded, in order
RECURSIVE GoodReads(_, _)
GoodReads(samples, i) ==
    IF i > Len(samples) THEN << >>
    ELSE (IF samples[i].err = 0 THEN << samples[i].raw >> ELSE << >>)
             \o GoodReads(samples, i + 1)

NoStart == [called |-> FALSE, was_enabled |-> FALSE, ret |-> 0, same |-> TRUE]

\* What a call of adc_start_periodic_reading leaves behind
StartEffect(r) ==
    /\ periodic_reading_enabled' = r.enabled
    /\ adc_work' = r.work
    /\ work_q' = r.q
    /\ last_start' = [called      |-> TRUE,
                      was_enabled |-> periodic_reading_enabled,
                      ret         |-> r.ret,
                      same        |-> /\ r.enabled = periodic_reading_enabled
                                      /\ r.work = adc_work
                                      /\ r.q = work_q]

\* The application calls adc_start_periodic_reading()
adc_start_periodic_reading ==
    /\ main_pc = "sleep"
    /\ adc_ready
    /\ StartEffect(adc_start(periodic_reading_enabled, adc_work, work_q))
    /\ last_op' = Op("adc_start_periodic_reading", btn_state,
                     periodic_reading_enabled)
    /\ UNCHANGED << level, btn_state, debounce_timer, factory_reset_timer,
                    user_callback, work_running, quiet, burst, held,
                    press_mark, expiries, transitions, executions, calls, resets,
                    zb_sched, adc_pc, last_tick >>
    /\ UNCHANGED relayVars
    /\ UNCHANGED voltageVars
    /\ UNCHANGED mainVars
    /\ UNCHANGED batteryVars

\* The application calls adc_stop_periodic_reading()
adc_stop_periodic_reading ==
    /\ main_pc = "sleep"
    /\ adc_ready
    /\ LET r == adc_stop(adc_work, work_q)
       IN /\ periodic_reading_enabled' = r.enabled
          /\ adc_work' = r.work
          /\ work_q' = r.q
    /\ last_op' = Op("adc_stop_periodic_reading", btn_state,
                     periodic_reading_enabled)
    /\ UNCHANGED << level, btn_state, debounce_timer, factory_reset_timer,
                    user_callback, work_running, quiet, burst, held,
                    press_mark, expiries, transitions, executions, calls, resets,
                    zb_sched, adc_pc, last_tick, last_start >>
    /\ UNCHANGED relayVars
    /\ UNCHANGED voltageVars
    /\ UNCHANGED mainVars
    /\ UNCHANGED batteryVars

\* The delay of adc_work has run out: the item goes on the system work queue
adc_work_timeout ==
    /\ Expired(adc_work.timeout)
    /\ adc_work' = [adc_work EXCEPT !.timeout = TimerStopped]
    /\ work_q' = k_work_submit(work_q, adc_work_item, 0)
    /\ last_op' = Op("adc_work_timeout", btn_state, periodic_reading_enabled)
    /\ UNCHANGED << level, btn_state, debounce_timer, factory_reset_timer,
                    user_callback, work_running, quiet, burst, held,
                    press_mark, expiries, transitions, executions, calls, resets,
                    zb_sched >>
    /\ UNCHANGED relayVars
    /\ UNCHANGED voltageVars
    /\ UNCHANGED mainVars
    /\ UNCHANGED batteryVars
    /\ UNCHANGED samplerRest

\* The handler returns to the queue thread, which clears the running flag
\* and completes a cancellation issued while the handler ran
adc_work_return ==
    /\ work_running' = NoItem
    /\ adc_pc' = "read"

Failed(samples) == Cardinality({i \in DOMAIN samples : samples[i].err # 0})

\* Variant: the attributes are updated whatever the read returned
tick_updates_always(err) == TRUE

\* adc_work_handler: if (err == 0) zigbee_device_update_battery(voltage_mv)
tick_updates(err) == err = 0

\* Variant: a failed read makes the handler return at once
adc_after_read_returns_on_error(err) == IF err = 0 THEN "check" ELSE "return"

\* adc_work_handler: the statement after the read and its if/else is the
\* test of periodic_reading_enabled, whatever the read returned
adc_after_read(err) == "check"

\* adc_work_handler, up to the test of periodic_reading_enabled: the read
\* and, when it succeeded, the update of the battery attributes
adc_work_handler ==
    /\ work_running.work = adc_work_item
    /\ adc_pc = "read"
    /\ \E samples \in SampleRuns, conv_err \in {0, -ENOTSUP} :
         LET r == adc_read_voltage_mv(samples, conv_err)
         IN /\ IF tick_updates(r.err)
               THEN BatteryEffect(r.mv)
               ELSE UNCHANGED << battery_voltage, battery_percentage,
                                 battery_last_reported, zb_sched,
                                 last_battery >>
            /\ last_tick' = [ran     |-> TRUE,
                             failed  |-> Failed(samples),
                             err     |-> r.err,
                             mv      |-> r.mv,
                             called  |-> tick_updates(r.err),
                             kept    |-> /\ batteryAttrs' = batteryAttrs
                                         /\ zb_sched' = zb_sched,
                             resched |-> FALSE,
                             after_failed |-> last_tick.ran /\ last_tick.err # 0,
                             good    |-> GoodReads(samples, 1)]
            /\ adc_pc' = adc_after_read(r.err)
    /\ last_op' = Op("adc_work_handler", btn_state, periodic_reading_enabled)
    /\ UNCHANGED << calls, resets, periodic_reading_enabled, adc_work,
                    last_start >>
    /\ UNCHANGED buttonVars
    /\ UNCHANGED relayVars
    /\ UNCHANGED voltageVars
    /\ UNCHANGED mainVars

\* adc_work_handler: if (periodic_reading_enabled); when it is false the
\* handler returns without a reschedule
adc_work_handler_check ==
    /\ work_running.work = adc_work_item
    /\ adc_pc \in {"check", "return"}
    /\ IF adc_pc = "check" /\ periodic_reading_enabled
       THEN /\ adc_pc' = "schedule"
            /\ UNCHANGED << work_running, adc_work >>
       ELSE /\ adc_work_return
            /\ adc_work' = [adc_work EXCEPT !.running = FALSE,
                                            !.canceling = FALSE]
    /\ last_op' = Op("adc_work_handler_check", btn_state,
                     periodic_reading_enabled)
    /\ UNCHANGED << level, btn_state, debounce_timer, factory_reset_timer,
                    user_callback, work_q, quiet, burst, held, press_mark, expiries,
                    transitions, executions, calls, resets, zb_sched,
                    periodic_reading_enabled, last_tick, last_start >>
    /\ UNCHANGED relayVars
    /\ UNCHANGED voltageVars
    /\ UNCHANGED mainVars
    /\ UNCHANGED batteryVars

\* adc_work_handler: k_work_schedule(&adc_work, K_MSEC(interval)), and the
\* return
adc_work_handler_schedule ==
    /\ work_running.work = adc_work_item
    /\ adc_pc = "schedule"
    /\ LET sch == k_work_schedule(adc_work, work_q, ADC_READING_INTERVAL_MS)
       IN /\ adc_work' = [sch.work EXCEPT !.running = FALSE,
                                          !.canceling = FALSE]
          /\ work_q' = sch.q
          /\ last_tick' = [last_tick EXCEPT !.resched = sch.work # adc_work]
    /\ adc_work_return
    /\ last_op' = Op("adc_work_handler_schedule", btn_state,
                     periodic_reading_enabled)
    /\ UNCHANGED << level, btn_state, debounce_timer, factory_reset_timer,
                    user_callback, quiet, burst, held, press_mark, expiries,
                    transitions, executions, calls, resets, zb_sched,
                    periodic_reading_enabled, last_start >>
    /\ UNCHANGED relayVars
    /\ UNCHANGED voltageVars
    /\ UNCHANGED mainVars
    /\ UNCHANGED batteryVars

----------------------------------------------------------------------------
(* main(): set-up of the subsystems, in program order *)

\* button_handler_init(NULL) when the interrupt configuration returns
\* err_cfg and gpio_add_callback returns err_add: the return value and
\* whether button_isr is registered
button_handler_init(err_cfg, err_add) ==
    IF err_cfg # 0 THEN [err |-> err_cfg, registered |-> FALSE]
    ELSE IF err_add # 0 THEN [err |-> err_add, registered |-> FALSE]
    ELSE [err |-> 0, registered |-> TRUE]

\* Where main() goes after a set-up call returned err: on to `next`, or out
main_after(err, next) == IF err # 0 THEN "returned" ELSE next

\* Variant: the sampler is started whatever adc_reader_init returned
main_starts_sampler_always(err) == TRUE

\* main(): adc_start_periodic_reading is called only in the else branch
main_starts_sampler(err) == err = 0

MainFrame ==
    /\ UNCHANGED << level, btn_state, debounce_timer, factory_reset_timer,
                    work_running, quiet, burst, held, press_mark, expiries, transitions,
                    executions, calls, resets, zb_sched, adc_pc, last_tick,
                    dk >>
    /\ UNCHANGED voltageVars
    /\ UNCHANGED batteryVars

\* err = gpio_control_init(); if (err) return err;
main_gpio_control_init ==
    /\ main_pc = "gpio_control_init"
    /\ \E err \in {0, -ENODEV} :
         /\ main_pc' = main_after(err, "button_handler_init")
         /\ last_op' = Op("gpio_control_init", btn_state, err = 0)
    /\ MainFrame
    /\ UNCHANGED relayVars
    /\ UNCHANGED << user_callback, button_cb_registered, zigbee_started,
                    adc_ready, periodic_reading_enabled, adc_work, work_q,
                    last_start >>

\* err = button_handler_init(NULL); if (err) return err;
main_button_handler_init ==
    /\ main_pc = "button_handler_init"
    /\ \E err_cfg \in {0, -ENODEV}, err_add \in {0, -ENODEV} :
         LET r == button_handler_init(err_cfg, err_add)
         IN /\ button_cb_registered' = r.registered
            /\ main_pc' = main_after(r.err, "zigbee_enable")
            /\ last_op' = Op("button_handler_init", btn_state, r.err = 0)
    /\ user_callback' = FALSE
    /\ MainFrame
    /\ UNCHANGED relayVars
    /\ UNCHANGED << zigbee_started, adc_ready, periodic_reading_enabled,
                    adc_work, work_q, last_start >>

\* zigbee_device_init() ... zigbee_enable()
main_zigbee_enable ==
    /\ main_pc = "zigbee_enable"
    /\ RelayEffect("init", FALSE, zigbee_device_init)
    /\ zigbee_started' = TRUE
    /\ main_pc' = "adc_reader_init"
    /\ last_op' = Op("zigbee_enable", btn_state, TRUE)
    /\ MainFrame
    /\ UNCHANGED << user_callback, button_cb_registered, adc_ready,
                    periodic_reading_enabled, adc_work, work_q, last_start >>

\* err = adc_reader_init(); if (err) ... else adc_start_periodic_reading();
main_adc_reader_init ==
    /\ main_pc = "adc_reader_init"
    /\ \E err \in {0, -ENODEV} :
         /\ adc_ready' = (err = 0)
         /\ IF main_starts_sampler(err)
            THEN StartEffect(adc_start(periodic_reading_enabled, adc_work,
                                       work_q))
            ELSE UNCHANGED << periodic_reading_enabled, adc_work, work_q,
                              last_start >>
         /\ last_op' = Op("adc_reader_init", btn_state, err = 0)
    /\ main_pc' = "sleep"
    /\ MainFrame
    /\ UNCHANGED relayVars
    /\ UNCHANGED << user_callback, button_cb_registered, zigbee_started >>

----------------------------------------------------------------------------
(* Initial states.  Init: main() has run button_handler_init and the       *)
(* Zigbee set-up and sleeps with no sampler running; InitMain: main() is    *)
(* entered.                                                                *)

\* The values the program's statics hold when main() is entered
InitButton ==
    /\ level = FALSE
    /\ btn_state = BTN_IDLE
    /\ factory_reset_timer = TimerStopped
    /\ held = 0

\* No press made yet: no debounce outstanding, no event, nothing queued
InitPresses ==
    /\ debounce_timer = TimerStopped
    /\ work_q = << >>
    /\ quiet = K_MSEC(DEBOUNCE_MS)
    /\ burst = NoBurst
    /\ press_mark = 0
    /\ transitions = << >>
    /\ last_op = Op("init", BTN_IDLE, FALSE)

\* The statics other than the button handler's and the presses made
InitRest ==
    /\ work_running = NoItem
    /\ relay_state = FALSE
    /\ relay_gpio = relay_control_set(FALSE)
    /\ last_relay = NoRelayCall
    /\ last_zcl = NoZcl
    /\ relay_ops = NoRelayOps
    /\ zb_sched = << >>
    /\ voltage_present_value = 0
    /\ voltage_last_reported = 0
    /\ network_joined = FALSE
    /\ expiries = 0
    /\ executions = << >>
    /\ calls = << >>
    /\ resets = 0
    /\ last_update = NoUpdate
    /\ example = [on |-> TRUE, flags |-> << >>]
    /\ ever_joined = FALSE
    /\ last_signal \in {NoSignal, [NoSignal EXCEPT !.traced = TRUE]}
    /\ sent = NoReport
    /\ emitted = voltage_last_reported
    /\ adc_ready = FALSE
    /\ dk = NoDk
    /\ periodic_reading_enabled = FALSE
    /\ adc_work = k_work_init_delayable
    /\ adc_pc = "read"
    /\ battery_voltage = 0
    /\ battery_percentage = 0
    /\ battery_last_reported = 0
    /\ last_tick = NoTick
    /\ last_start = NoStart
    /\ last_battery = NoBattery

\* The statics other than the button's level, state and hold timer
InitOther ==
    /\ InitPresses
    /\ InitRest

InitStatics == InitButton /\ InitOther

\* The hold timer's expiry delivered in each state of the classifier, the
\* button held down or not
InitExpiry ==
    /\ level \in BOOLEAN
    /\ btn_state \in button_state_t
    /\ factory_reset_timer = [armed |-> TRUE, ticks |-> 0]
    /\ held = K_MSEC(FACTORY_RESET_TIME_MS)
    /\ InitOther
    /\ user_callback \in BOOLEAN
    /\ main_pc = "sleep"
    /\ button_cb_registered = TRUE
    /\ zigbee_started = TRUE
    /\ ~last_signal.traced

Init ==
    /\ InitStatics
    /\ user_callback \in BOOLEAN
    /\ main_pc = "sleep"
    /\ button_cb_registered = TRUE
    /\ zigbee_started = TRUE
    /\ ~last_signal.traced

InitMain ==
    /\ InitStatics
    /\ user_callback = FALSE
    /\ main_pc = "gpio_control_init"
    /\ button_cb_registered = FALSE
    /\ zigbee_started = FALSE
    /\ ~last_signal.traced

NextButton ==
    \/ Edge
    \/ Tick
    \/ debounce_timer_handler
    \/ factory_reset_timer_handler
    \/ work_queue_main
    \/ short_press_work_handler
    \/ factory_reset_work_handler
    \/ do_factory_reset

SpecButton == Init /\ [][NextButton]_vars

\* Short presses already made when the fair run starts
Backlog == MaxEvents - 1

\* The state after Backlog short presses made in quick succession while the
\* work-queue thread was kept from running: the presses after the first found
\* the item pending, so it is queued once; the button is at rest
InitBacklog ==
    /\ level = FALSE
    /\ btn_state = BTN_IDLE
    /\ factory_reset_timer = TimerStopped
    /\ held = K_MSEC(DEBOUNCE_MS)
    /\ debounce_timer = TimerStopped
    /\ work_q = << [work |-> short_press_work, seq |-> 1] >>
    /\ quiet = K_MSEC(DEBOUNCE_MS)
    /\ burst = [edges |-> 1, first |-> FALSE, settles |-> 1]
    /\ press_mark = Backlog - 1
    /\ transitions = [i \in 1..Backlog |-> short_press_work]
    /\ last_op = Op("debounce_timer_handler", BTN_PRESSED, FALSE)
    /\ InitRest
    /\ user_callback \in BOOLEAN
    /\ main_pc = "sleep"
    /\ button_cb_registered = TRUE
    /\ zigbee_started = TRUE
    /\ ~last_signal.traced

\* The button handler from a hold-timer expiry delivered in any state
SpecExpiry == InitExpiry /\ [][NextButton]_vars

NextVoltage ==
    \/ zigbee_device_update_voltage
    \/ zboss_signal_handler
    \/ voltage_report_cb

SpecVoltage == Init /\ [][NextVoltage]_vars

NextThreshold ==
    \/ zigbee_device_update_voltage_wide
    \/ zboss_signal_handler
    \/ voltage_report_cb

\* The threshold reporter called over the whole zb_int16_t range
SpecThreshold == Init /\ [][NextThreshold]_vars

NextAdc ==
    \/ main_gpio_control_init
    \/ main_button_handler_init
    \/ main_zigbee_enable
    \/ main_adc_reader_init
    \/ adc_start_periodic_reading
    \/ adc_stop_periodic_reading
    \/ Tick
    \/ adc_work_timeout
    \/ work_queue_main
    \/ adc_work_handler
    \/ adc_work_handler_check
    \/ adc_work_handler_schedule
    \/ zboss_signal_handler
    \/ battery_report_cb

SpecAdc == InitMain /\ [][NextAdc]_vars

\* The relay API after set-up: commands arrive whatever the join state
NextRelay ==
    \/ main_gpio_control_init
    \/ main_button_handler_init
    \/ main_zigbee_enable
    \/ main_adc_reader_init
    \/ relay_set
    \/ relay_toggle
    \/ zboss_signal_handler

\* main() from its first statement, with the signals handled recorded
InitSignals ==
    /\ InitStatics
    /\ last_signal.traced
    /\ user_callback = FALSE
    /\ main_pc = "gpio_control_init"
    /\ button_cb_registered = FALSE
    /\ zigbee_started = FALSE

\* The start-up of main(), the relay API and the stack's signals
SpecSignals == InitSignals /\ [][NextRelay]_vars

\* The relay API and the stack's ZCL commands, each call in one piece
NextZcl ==
    \/ main_gpio_control_init
    \/ main_button_handler_init
    \/ main_zigbee_enable
    \/ main_adc_reader_init
    \/ relay_set
    \/ relay_toggle
    \/ zcl_device_cb

SpecZcl == InitMain /\ [][NextZcl]_vars

\* The two writers of the relay interleaved statement by statement
NextRelayRace ==
    \/ main_gpio_control_init
    \/ main_button_handler_init
    \/ main_zigbee_enable
    \/ main_adc_reader_init
    \/ set_relay_store
    \/ set_relay_output
    \/ zcl_on_off_store
    \/ zcl_on_off_output
    \/ zboss_signal_handler

SpecRelayRace == InitMain /\ [][NextRelayRace]_vars

\* The two button paths fed with the same changes and the same clock
NextDk ==
    \/ ButtonChange
    \/ Tick
    \/ factory_reset_timer_handler
    \/ dk_factory_reset_timer_handler
    \/ do_factory_reset

SpecDk == Init /\ [][NextDk]_vars

SpecRelay == InitMain /\ [][NextRelay]_vars

\* The battery reporter on its own: updates with any reading, join signals
\* and the stack running the report callback
NextBattery ==
    \/ zigbee_device_update_battery
    \/ zboss_signal_handler
    \/ battery_report_cb

SpecBattery == Init /\ [][NextBattery]_vars

\* The sampler left running: the application never calls stop, the set-up
\* succeeds or fails as it may, and the kernel is fair to the clock, the
\* timeout, the queue thread and main()
NextAdcRun ==
    \/ main_gpio_control_init
    \/ main_button_handler_init
    \/ main_zigbee_enable
    \/ main_adc_reader_init
    \/ adc_start_periodic_reading
    \/ Tick
    \/ adc_work_timeout
    \/ work_queue_main
    \/ adc_work_handler
    \/ adc_work_handler_check
    \/ adc_work_handler_schedule

SpecAdcRun ==
    /\ InitMain
    /\ [][NextAdcRun]_vars
    /\ WF_vars(Tick)
    /\ WF_vars(adc_work_timeout)
    /\ WF_vars(work_queue_main)
    /\ WF_vars(adc_work_handler)
    /\ WF_vars(adc_work_handler_check)
    /\ WF_vars(adc_work_handler_schedule)

----------------------------------------------------------------------------
(* Properties *)

QuietPeriod == K_MSEC(DEBOUNCE_MS)
HoldPeriod == K_MSEC(FACTORY_RESET_TIME_MS)

\* The press events since the latest IDLE -> PRESSED transition
EventsSincePress == SubSeq(transitions, press_mark + 1, Len(transitions))

\* The work item whose submission was the i-th press event
KindOf(i) == transitions[i]

Count(seq, x) == Cardinality({i \in 1..Len(seq) : seq[i] = x})

Executed(work) ==
    Cardinality({i \in 1..Len(executions) : KindOf(executions[i]) = work})

\* C1: Debounce stability.  An edge only restarts the debounce timer; a burst
\* of edges, each less than the quiet period after the one before, gets
\* exactly one run of debounce_timer_handler, a full quiet period after the
\* last edge, and the value handed to process_button_state is the physical
\* level at that moment.
C1_DebounceStability ==
    /\ burst.settles <= 1
    /\ (burst.edges > 0 /\ burst.settles = 0) => debounce_timer.armed
    /\ last_op.op = "button_isr" =>
          /\ debounce_timer = k_timer_start(DEBOUNCE_MS)
          /\ btn_state = last_op.from
    /\ last_op.op = "debounce_timer_handler" =>
          /\ burst.settles = 1
          /\ quiet = QuietPeriod
          /\ last_op.pressed = level
          /\ ~debounce_timer.armed

\* A burst of two edges or more has settled on a level that differs from the
\* level at its first edge
C1_Witness ==
    /\ last_op.op = "debounce_timer_handler"
    /\ burst.edges >= 2
    /\ burst.first # last_op.pressed

\* C2: Short press.  From BTN_IDLE a settled 'pressed' sample arms the hold
\* timer and submits nothing; a settled 'released' sample that finds the state
\* still BTN_PRESSED (hold timer not expired) submits short_press_work once and
\* nothing else, and leaves BTN_IDLE with the hold timer stopped.
C2_ShortPress ==
    /\ (/\ last_op.op = "debounce_timer_handler"
        /\ last_op.from = BTN_IDLE
        /\ last_op.pressed) =>
          /\ btn_state = BTN_PRESSED
          /\ factory_reset_timer = k_timer_start(FACTORY_RESET_TIME_MS)
          /\ EventsSincePress = << >>
    /\ (/\ last_op.op = "debounce_timer_handler"
        /\ last_op.from = BTN_PRESSED
        /\ ~last_op.pressed) =>
          /\ btn_state = BTN_IDLE
          /\ ~factory_reset_timer.armed
          /\ EventsSincePress = << short_press_work >>

C2_Witness ==
    /\ last_op.op = "debounce_timer_handler"
    /\ last_op.from = BTN_PRESSED
    /\ ~last_op.pressed
    /\ held > 0

\* C3: Long press.  A press held for the hold period with no settled release
\* submits factory_reset_work once, when the hold timer expires, and moves to
\* BTN_LONG_PRESS; the settled release that follows returns to BTN_IDLE and
\* submits nothing.
C3_LongPress ==
    /\ (/\ last_op.op = "factory_reset_timer_handler"
        /\ last_op.from = BTN_PRESSED) =>
          /\ btn_state = BTN_LONG_PRESS
          /\ held = HoldPeriod
          /\ EventsSincePress = << factory_reset_work >>
    /\ btn_state = BTN_LONG_PRESS => EventsSincePress = << factory_reset_work >>
    /\ (/\ last_op.op = "debounce_timer_handler"
        /\ last_op.from = BTN_LONG_PRESS
        /\ ~last_op.pressed) =>
          /\ btn_state = BTN_IDLE
          /\ EventsSincePress = << factory_reset_work >>

C3_Witness ==
    /\ last_op.op = "debounce_timer_handler"
    /\ last_op.from = BTN_LONG_PRESS
    /\ ~last_op.pressed
    /\ btn_state = BTN_IDLE

\* C4: Every press event is consumed exactly once.  Once the work queue has
\* drained, each handler has run as many times as its transition occurred.
C4_ExactlyOnce ==
    (work_q = << >> /\ work_running = NoItem) =>
        /\ Executed(short_press_work) = Count(transitions, short_press_work)
        /\ Executed(factory_reset_work) = Count(transitions, factory_reset_work)

C6_ShortPressAction ==
    last_op.op = "short_press_work_handler" =>
        /\ Len(calls) >= 2
        /\ calls[1] = "user_input_indicate"
        /\ calls[2] = "zigbee_device_toggle_relay"
        /\ Count(calls, "zigbee_device_toggle_relay") = 1
        /\ Count(calls, "ZB_SCHEDULE_APP_CALLBACK(do_factory_reset)") = 0
        /\ relay_state = ~last_op.pressed
        /\ relay_gpio = relay_state

C6_Witness ==
    /\ last_op.op = "short_press_work_handler"
    /\ relay_state
    /\ Len(executions) >= 1

\* C7 as stated: factory_reset_work_handler makes, in order, the user input
\* notification, the callback with long_press = true when one is registered,
\* and the request for a factory reset; it never toggles the relay.
C7_LongPressAction_Stated ==
    last_op.op = "factory_reset_work_handler" =>
        /\ calls = << "user_input_indicate" >>
                     \o (IF user_callback THEN << "user_callback(true)" >>
                         ELSE << >>)
                     \o << "ZB_SCHEDULE_APP_CALLBACK(do_factory_reset)" >>
        /\ relay_state = last_op.pressed

\* C7 amended: factory_reset_work_handler makes, in order, the callback with
\* long_press = true when one is registered and the request for a factory
\* reset through the stack scheduler; it makes no user input notification and
\* never toggles the relay.
C7_LongPressAction ==
    last_op.op = "factory_reset_work_handler" =>
        /\ calls = (IF user_callback THEN << "user_callback(true)" >>
                    ELSE << >>)
                     \o << "ZB_SCHEDULE_APP_CALLBACK(do_factory_reset)" >>
        /\ zb_sched # << >>
        /\ zb_sched[Len(zb_sched)] = "do_factory_reset"
        /\ relay_state = last_op.pressed
        /\ relay_gpio = relay_state

C7_Witness ==
    /\ last_op.op = "factory_reset_work_handler"
    /\ user_callback
    /\ Len(calls) = 2

\* C8: Threshold gating.  A call made while joined schedules a report exactly
\* when the new centivolt value differs from voltage_last_reported by at
\* least the threshold, and after a call that schedules one
\* voltage_last_reported is the new value.  From 0, the readings 330, 332,
\* 337, 300 cV schedule reports at 330, 337 and 300 and none at 332.
C8_ThresholdGating ==
    /\ (last_update.called /\ last_update.joined) =>
          /\ last_update.sched <=>
                Abs(last_update.present - last_update.last_before)
                    >= VOLTAGE_REPORT_THRESHOLD_CV
          /\ last_update.sched => last_update.last_after = last_update.present
    /\ \A n \in 1..Len(example.flags) :
          example.flags[n] = << TRUE, FALSE, TRUE, TRUE >>[n]

C8_Witness ==
    /\ example.on
    /\ example.flags = << TRUE, FALSE, TRUE, TRUE >>
    /\ last_op.op = "zigbee_device_update_voltage"
    /\ voltage_last_reported = 300

\* C9: Join gating.  A call made while network_joined is false schedules no
\* report, whatever the value; while the device has never joined nothing is
\* scheduled and nothing has been transmitted.
C9_JoinGating ==
    /\ (last_update.called /\ ~last_update.joined) => ~last_update.sched
    /\ ~ever_joined => (zb_sched = << >> /\ ~sent.any)

\* A second call made before any join, each with a change of at least the
\* threshold
C9_Witness ==
    /\ ~ever_joined
    /\ last_op.op = "zigbee_device_update_voltage"
    /\ last_update.last_before # 0
    /\ Abs(last_update.present - last_update.last_before)
          >= VOLTAGE_REPORT_THRESHOLD_CV
    /\ voltage_last_reported = last_update.present

\* C10: Reports are only sent when joined.  A report is handed to the stack
\* (send_voltage_report runs) only while network_joined is true.
C10_SentOnlyWhenJoined == sent.any => sent.joined

\* C11 as stated: reporting after a (re)join.  A call made while joined whose
\* value differs by at least the threshold from the value of the latest
\* report scheduled (initially 0) schedules a report, also when the value was
\* already seen by calls made while not joined.  (A call that schedules no
\* report leaves `emitted` as it was before the call.)
C11_ReportAfterJoin ==
    (/\ last_update.called
     /\ last_update.joined
     /\ ~last_update.sched)
        => Abs(last_update.present - emitted) < VOLTAGE_REPORT_THRESHOLD_CV

\* C12 as stated: voltage_last_reported changes in a call only if that call
\* schedules a report.
C12_LastReportedOnlyOnReport ==
    (last_update.called /\ last_update.last_after # last_update.last_before)
        => last_update.sched

\* C13: voltage_present_value is updated unconditionally.  After every call
\* zigbee_device_update_voltage(voltage_mv) the present value, and the value
\* zigbee_device_get_voltage_centivolts returns, is voltage_mv / 10 truncated
\* toward zero, whatever the threshold test and the join flag say.
C13_PresentValue ==
    (last_update.called /\ last_op.op = "zigbee_device_update_voltage") =>
        /\ voltage_present_value = last_update.present
        /\ zigbee_device_get_voltage_centivolts = last_update.present
        /\ \E r \in -9..9 :
              /\ last_update.present * 10 + r = last_update.mv
              /\ last_update.mv >= 0 => r >= 0
              /\ last_update.mv <= 0 => r <= 0

\* A call made while not joined, below the threshold, with a reading that is
\* not a whole number of centivolts
C13_Witness ==
    /\ last_op.op = "zigbee_device_update_voltage"
    /\ ~last_update.joined
    /\ ~last_update.sched
    /\ last_update.last_after = last_update.last_before
    /\ last_update.mv % 10 # 0
    /\ last_update.present # last_update.last_before

\* The work item is waiting to run: its delay is pending or it is queued
AdcScheduled == adc_work.timeout.armed \/ IsPending(work_q, adc_work_item)

\* The handler of the work item is being run by the queue thread
AdcInFlight == work_running.work = adc_work_item

\* C14: Idempotent start.  A call of adc_start_periodic_reading made while
\* the sampler is enabled returns 0 and changes nothing: the work item is
\* neither initialised nor scheduled again.  There is one schedule at most
\* (the item is never both delayed and queued, and never queued twice), and
\* a call that does start the sampler queues the first reading at once.
C14_IdempotentStart ==
    /\ (last_op.op = "adc_start_periodic_reading" /\ last_start.was_enabled) =>
          /\ last_start.ret = 0
          /\ last_start.same
          /\ periodic_reading_enabled
    /\ ~(adc_work.timeout.armed /\ IsPending(work_q, adc_work_item))
    /\ Cardinality({i \in 1..Len(work_q) : work_q[i].work = adc_work_item}) <= 1
    /\ (/\ last_op.op \in {"adc_start_periodic_reading", "adc_reader_init"}
        /\ last_start.called
        /\ ~last_start.was_enabled) =>
          /\ periodic_reading_enabled
          /\ IsPending(work_q, adc_work_item)
          /\ ~adc_work.timeout.armed

\* A second start, made while the reschedule of an earlier tick is pending
C14_Witness ==
    /\ last_op.op = "adc_start_periodic_reading"
    /\ last_start.was_enabled
    /\ last_tick.ran
    /\ adc_work.timeout.armed
    /\ adc_work.timeout.ticks < K_MSEC(ADC_READING_INTERVAL_MS)

\* C15: Cooperative stop.  adc_stop_periodic_reading leaves nothing
\* scheduled; a tick that is running when it is called finishes without
\* scheduling the next one; once stop has returned and no tick is in flight
\* nothing is scheduled, and no tick starts, until the sampler is started
\* again.
C15_CooperativeStop ==
    /\ last_op.op = "adc_stop_periodic_reading" =>
          /\ ~periodic_reading_enabled
          /\ ~AdcScheduled
    /\ (~periodic_reading_enabled /\ ~AdcInFlight) => ~AdcScheduled
    /\ (last_op.op = "work_queue_main" /\ AdcInFlight) =>
          periodic_reading_enabled

\* C16: Total I/O failure.  In a tick where every oversample read fails,
\* adc_read_voltage_mv returns -EIO, zigbee_device_update_battery is not
\* called, and the attribute values, the last reported value and the
\* scheduled reports are as they were before the tick.
C16_TotalFailure ==
    (/\ last_op.op = "adc_work_handler"
     /\ last_tick.failed = CONFIG_ADC_OVERSAMPLE_COUNT) =>
        /\ last_tick.err = -EIO
        /\ ~last_tick.called
        /\ last_tick.kept

\* Every read of a tick failed after an earlier tick had set the attributes
\* and a report is waiting
C16_Witness ==
    /\ last_op.op = "adc_work_handler"
    /\ last_tick.failed = CONFIG_ADC_OVERSAMPLE_COUNT
    /\ battery_voltage # 0
    /\ battery_last_reported # 0
    /\ zb_sched # << >>

\* C17 as stated: in a tick in which at least one oversample read fails the
\* values are retained and no report is triggered.
C17_AnyReadFailure ==
    (last_op.op = "adc_work_handler" /\ last_tick.failed >= 1) =>
        /\ ~last_tick.called
        /\ last_tick.kept

\* C17 amended: in a tick in which adc_read_voltage_mv returns an error
\* (every read failed, or the conversion to millivolts failed) the values are
\* retained and no report is triggered; a tick in which only some reads fail
\* and the conversion succeeds returns 0 and updates the attributes from the
\* reads that succeeded.
C17_ReadFailure ==
    /\ (last_op.op = "adc_work_handler" /\ last_tick.err # 0) =>
          /\ ~last_tick.called
          /\ last_tick.kept
    /\ (/\ last_op.op = "adc_work_handler"
        /\ last_tick.failed < CONFIG_ADC_OVERSAMPLE_COUNT
        /\ last_tick.err = 0) =>
          /\ last_tick.called
          /\ battery_voltage = battery_decivolts(last_tick.mv)
          /\ last_tick.mv >= BATTERY_EMPTY_MV

\* The conversion failed in a tick with a successful read, with attributes
\* set by an earlier tick
C17_Witness ==
    /\ last_op.op = "adc_work_handler"
    /\ last_tick.err # 0
    /\ last_tick.failed < CONFIG_ADC_OVERSAMPLE_COUNT
    /\ battery_voltage # 0

\* C18: A failed tick does not stop the sampler.  While stop is not called,
\* every tick that reaches its reschedule, failed or not, arms the next
\* tick a full interval later; a read that succeeds is delivered to
\* zigbee_device_update_battery, also after failed ticks; and with a fair
\* queue a started sampler runs a tick again and again.
C18_TicksRecur ==
    /\ [](last_op.op = "adc_work_handler_schedule" =>
            /\ last_tick.resched
            /\ adc_work.timeout = k_timer_start(ADC_READING_INTERVAL_MS))
    /\ []((last_op.op = "adc_work_handler" /\ last_tick.err = 0) =>
            last_tick.called)
    /\ [](periodic_reading_enabled => <>(last_op.op = "adc_work_handler"))

\* A successful read is delivered in the tick after a failed one
C18_Witness ==
    /\ last_op.op = "adc_work_handler"
    /\ last_tick.after_failed
    /\ last_tick.err = 0
    /\ last_tick.called
    /\ battery_voltage # 0

\* C19: ADC set-up failure.  When adc_reader_init returned an error the
\* sampler is never started: no tick runs, nothing is scheduled, no attribute
\* is updated and no report is scheduled, while the Zigbee stack is started
\* and the button interrupt is registered.
C19_AdcSetupFailure ==
    (main_pc = "sleep" /\ ~adc_ready) =>
        /\ ~last_start.called
        /\ ~periodic_reading_enabled
        /\ ~AdcScheduled
        /\ ~AdcInFlight
        /\ ~last_tick.ran
        /\ battery_voltage = 0
        /\ battery_percentage = 0
        /\ battery_last_reported = 0
        /\ zb_sched = << >>
        /\ zigbee_started
        /\ button_cb_registered

\* The device has joined and time passes after a failed ADC set-up
C19_Witness ==
    /\ main_pc = "sleep"
    /\ ~adc_ready
    /\ network_joined
    /\ last_op.op = "tick"

\* C20 as stated: when gpio_control_init or button_handler_init returns an
\* error the button interrupt callback is not registered and the Zigbee
\* stack is still started.
C20_ButtonSetupFailure ==
    main_pc = "returned" =>
        /\ ~button_cb_registered
        /\ zigbee_started

\* C21: the battery percentage written by zigbee_device_update_battery is
\* 0 at and below 3000 mV, 200 half-percent units at and above 4200 mV, 100
\* at 3600 mV, on the straight line between the two end points (to within
\* one unit of rounding) in between, and always within 0..200.
C21_BatteryPercentage ==
    last_battery.called =>
        LET mv == last_battery.mv
            span == BATTERY_FULL_MV - BATTERY_EMPTY_MV
        IN /\ battery_percentage \in 0..200
           /\ mv <= 3000 => battery_percentage = 0
           /\ mv >= 4200 => battery_percentage = 200
           /\ mv = 3600 => battery_percentage = 100
           /\ (mv > 3000 /\ mv < 4200) =>
                 Abs(battery_percentage * span - (mv - 3000) * 200) < span

\* A reading above the full voltage was written as 100 %
C21_Witness ==
    /\ last_battery.called
    /\ last_battery.mv > 4200
    /\ battery_percentage = 200
    /\ last_op.op = "zigbee_device_update_battery"

\* C22: Hold-timer invariant.  The hold timer is pending only in
\* BTN_PRESSED, and its deadline is the one set by the IDLE -> PRESSED
\* transition: the ticks left and the ticks since that transition add up to
\* the hold period.  A PRESSED -> IDLE transition leaves it stopped.
C22_HoldTimer ==
    /\ factory_reset_timer.armed =>
          /\ btn_state = BTN_PRESSED
          /\ factory_reset_timer.ticks + held = HoldPeriod
    /\ (/\ last_op.op = "debounce_timer_handler"
        /\ last_op.from = BTN_PRESSED
        /\ btn_state = BTN_IDLE) => factory_reset_timer = TimerStopped

\* The hold timer is running part way through a press
C22_Witness ==
    /\ factory_reset_timer.armed
    /\ factory_reset_timer.ticks > 0
    /\ factory_reset_timer.ticks < HoldPeriod
    /\ btn_state = BTN_PRESSED

\* C23: Late hold-timer expiry.  A run of factory_reset_timer_handler in a
\* state other than BTN_PRESSED leaves btn_state, the work queue, the press
\* events, the ZBOSS scheduler queue and the number of factory resets as
\* they were.
C23_LateExpiry ==
    [][(/\ Expired(factory_reset_timer)
        /\ btn_state # BTN_PRESSED
        /\ last_op'.op = "factory_reset_timer_handler") =>
            UNCHANGED << btn_state, work_q, work_running, transitions,
                         zb_sched, resets >>]_vars

\* The handler has run in BTN_IDLE or BTN_LONG_PRESS
C23_Witness ==
    /\ last_op.op = "factory_reset_timer_handler"
    /\ last_op.from # BTN_PRESSED
    /\ btn_state = last_op.from
    /\ ~factory_reset_timer.armed

\* C24: Relay API.  After zigbee_device_init the relay state is OFF; after
\* zigbee_device_set_relay(on), zigbee_device_get_relay_state() is on;
\* zigbee_device_toggle_relay returns the new state, the negation of the
\* state before the call; two toggles in a row restore the state before
\* the first.
C24_RelayApi ==
    /\ last_relay.op = "init" => zigbee_device_get_relay_state = FALSE
    /\ last_relay.op = "set" => zigbee_device_get_relay_state = last_relay.arg
    /\ last_relay.op = "toggle" =>
          /\ last_relay.ret = zigbee_device_get_relay_state
          /\ last_relay.ret = ~last_relay.before
    /\ (last_relay.op = "toggle" /\ last_relay.prev_op = "toggle") =>
          zigbee_device_get_relay_state = last_relay.before_prev

\* The relay was ON, and two toggles in a row have left it ON
C24_Witness ==
    /\ last_relay.op = "toggle"
    /\ last_relay.prev_op = "toggle"
    /\ last_relay.before_prev
    /\ zigbee_device_get_relay_state

\* C25: The edge interrupt has no direct effect on logical state.  A run of
\* button_isr leaves btn_state, the hold timer, the work queue and the press
\* events unchanged and restarts the debounce timer with the full 30 ms,
\* whatever was pending; btn_state changes only in a step of
\* debounce_timer_handler or factory_reset_timer_handler.
C25_IsrFrame ==
    [][/\ last_op'.op = "button_isr" =>
            /\ UNCHANGED << btn_state, factory_reset_timer, work_q,
                            work_running, transitions >>
            /\ debounce_timer' = k_timer_start(DEBOUNCE_MS)
       /\ btn_state' # btn_state =>
            last_op'.op \in {"debounce_timer_handler",
                             "factory_reset_timer_handler"}]_vars

\* An edge in BTN_PRESSED, the hold timer running, has restarted a debounce
\* timer that was already pending
C25_Witness ==
    /\ last_op.op = "button_isr"
    /\ btn_state = BTN_PRESSED
    /\ factory_reset_timer.armed
    /\ burst.edges >= 2
    /\ debounce_timer = k_timer_start(DEBOUNCE_MS)

\* The settled sample repeats the condition the state already stands for
RepeatsCondition(st, pressed) ==
    \/ st = BTN_IDLE /\ ~pressed
    \/ st = BTN_PRESSED /\ pressed
    \/ st = BTN_LONG_PRESS /\ pressed

\* C26: Settled samples that repeat the current condition change nothing.
\* A run of debounce_timer_handler whose sample is 'released' in BTN_IDLE or
\* 'pressed' in BTN_PRESSED or BTN_LONG_PRESS leaves btn_state, the hold
\* timer (its deadline included), the work queue and the press events as
\* they were.
C26_RepeatedSample ==
    [][(/\ last_op'.op = "debounce_timer_handler"
        /\ RepeatsCondition(btn_state, last_op'.pressed)) =>
            UNCHANGED << btn_state, factory_reset_timer, work_q, work_running,
                         transitions >>]_vars

\* A repeated 'pressed' sample in BTN_PRESSED, part way through the hold
\* period
C26_Witness ==
    /\ last_op.op = "debounce_timer_handler"
    /\ last_op.from = BTN_PRESSED
    /\ last_op.pressed
    /\ btn_state = BTN_PRESSED
    /\ factory_reset_timer.armed
    /\ factory_reset_timer.ticks < HoldPeriod

\* The hold timer has just expired in BTN_PRESSED: the long press is
\* recognised
LongPressRecognised ==
    /\ last_op.op = "factory_reset_timer_handler"
    /\ last_op.from = BTN_PRESSED

\* C27 as stated: whenever btn_state moves to BTN_LONG_PRESS and the factory
\* reset event is submitted, the physical button level is 'pressed'.
C27_PressedAtLongPress ==
    LongPressRecognised => level

\* C27: A long press is recognised only while the classifier still stands
\* in BTN_PRESSED a full hold period after the settled 'pressed' sample:
\* at that instant the button is physically pressed, or it has been
\* released and the debounce timer of that release is still pending.  A
\* release that has settled before the hold timer expires never yields a
\* long-press event.
C27_LongPressSettled ==
    /\ LongPressRecognised =>
          /\ btn_state = BTN_LONG_PRESS
          /\ held = HoldPeriod
          /\ level \/ debounce_timer.armed
    /\ (btn_state = BTN_IDLE /\ Len(transitions) > press_mark) =>
          \/ EventsSincePress = << short_press_work >>
          \/ /\ EventsSincePress = << factory_reset_work >>
             /\ held = HoldPeriod

\* The long press was recognised with the button already released, the
\* release not yet settled
C27_Witness ==
    /\ LongPressRecognised
    /\ ~level
    /\ debounce_timer.armed
    /\ btn_state = BTN_LONG_PRESS

\* Factory resets requested of the stack and not yet performed
ResetsScheduled == Count(zb_sched, "do_factory_reset")

\* factory_reset_work queued or in its handler
ResetWorkOutstanding ==
    (IF IsPending(work_q, factory_reset_work) THEN 1 ELSE 0)
        + (IF work_running.work = factory_reset_work THEN 1 ELSE 0)

\* C28: Factory reset only through the full chain.  Every execution of
\* do_factory_reset follows its own execution of factory_reset_work_handler
\* on the work queue, and every such execution follows a hold-timer expiry
\* that found BTN_PRESSED a full hold period after the settled 'pressed'
\* sample; with no such expiry there is no reset, whatever the number of
\* short presses.
C28_ResetChain ==
    /\ resets + ResetsScheduled <= Executed(factory_reset_work)
    /\ Executed(factory_reset_work) + ResetWorkOutstanding <= expiries
    /\ LongPressRecognised => held = HoldPeriod
    /\ last_op.op = "do_factory_reset" => resets > 0
    /\ expiries = 0 =>
          /\ resets = 0
          /\ ResetsScheduled = 0
          /\ ResetWorkOutstanding = 0

\* A factory reset has been performed after a short press and a long press
C28_Witness ==
    /\ last_op.op = "do_factory_reset"
    /\ resets = 1
    /\ expiries = 1
    /\ Count(transitions, short_press_work) >= 1

\* C29: After every update the tracker is within the threshold.  When a
\* call of zigbee_device_update_voltage has returned, report scheduled or
\* not, joined or not, voltage_present_value and voltage_last_reported
\* differ by less than 5 centivolts (for values whose difference from the
\* last reported value fits in 16 bits).
C29_WithinThreshold ==
    (/\ last_op.op = "zigbee_device_update_voltage"
     /\ Abs(last_update.present - last_update.last_before) <= 32767) =>
        Abs(voltage_present_value - voltage_last_reported)
            < VOLTAGE_REPORT_THRESHOLD_CV

\* A call made while not joined, with a change of at least the threshold
\* from a last reported value that an earlier call had set
C29_Witness ==
    /\ last_op.op = "zigbee_device_update_voltage"
    /\ ~last_update.joined
    /\ ~ever_joined
    /\ last_update.last_before = 5
    /\ last_update.present = 330
    /\ voltage_last_reported = 330

\* C30: No transmit buffer, no requeue.  A run of voltage_report_cb in
\* which zb_buf_get_out returns no buffer transmits nothing, leaves the
\* scheduler queue without that callback and without a new one, and leaves
\* voltage_present_value and voltage_last_reported unchanged; a callback is
\* put on the queue only by a call of zigbee_device_update_voltage.
C30_DroppedReport ==
    [][/\ (last_op'.op = "voltage_report_cb" /\ ~last_op'.pressed) =>
            /\ sent' = sent
            /\ zb_sched' = Tail(zb_sched)
            /\ UNCHANGED << voltage_present_value, voltage_last_reported >>
       /\ Count(zb_sched', "voltage_report_cb")
               > Count(zb_sched, "voltage_report_cb") =>
            last_op'.op = "zigbee_device_update_voltage"]_vars

\* The only report scheduled so far was dropped: the value stands in both
\* tracker fields and has never been transmitted
C30_Witness ==
    /\ last_op.op = "voltage_report_cb"
    /\ ~last_op.pressed
    /\ ~sent.any
    /\ zb_sched = << >>
    /\ voltage_present_value = 330
    /\ voltage_last_reported = 330

RECURSIVE SeqSum(_)
SeqSum(seq) == IF seq = << >> THEN 0 ELSE Head(seq) + SeqSum(Tail(seq))

\* C31: Oversampling averages only the successful reads.  In a tick in
\* which k >= 1 reads succeed, the read goes on to the conversion (its
\* result is the conversion's, never -EIO); when the conversion succeeds
\* the reading is the conversion of the integer quotient (sum of the k
\* successful raw codes) / k, times 5, and the handler calls the update
\* with it.
C31_AverageOfSuccessful ==
    (last_tick.ran /\ Len(last_tick.good) >= 1) =>
        /\ last_tick.err \in {0, -ENOTSUP}
        /\ last_tick.err = 0 =>
              /\ last_tick.mv =
                    (((SeqSum(last_tick.good) \div Len(last_tick.good))
                        * 600 * 2) \div 4096) * 5
              /\ last_tick.called
              /\ last_battery.called
              /\ last_battery.mv = last_tick.mv

\* One read of the tick failed and the other delivered 2867: the update got
\* the reading of 2867 alone
C31_Witness ==
    /\ last_tick.ran
    /\ last_tick.failed = 1
    /\ last_tick.good = << 2867 >>
    /\ last_tick.called
    /\ last_battery.mv = 4195

\* C32: A settled 'released' sample returns the classifier to rest.  Whatever
\* the state was, after the debounce handler has sampled 'released' btn_state
\* is BTN_IDLE and the hold timer is not pending; and whenever the button is
\* released and its last edge has settled, the classifier is at rest: it is
\* never left in BTN_PRESSED or BTN_LONG_PRESS.
C32_ReleaseReturnsToIdle ==
    /\ (last_op.op = "debounce_timer_handler" /\ ~last_op.pressed) =>
          /\ btn_state = BTN_IDLE
          /\ ~factory_reset_timer.armed
    /\ (~level /\ ~debounce_timer.armed) =>
          /\ btn_state = BTN_IDLE
          /\ ~factory_reset_timer.armed

\* The release after a long press has settled after a burst of edges, and the
\* factory reset it requested has been handled meanwhile
C32_Witness ==
    /\ last_op.op = "debounce_timer_handler"
    /\ last_op.from = BTN_LONG_PRESS
    /\ ~last_op.pressed
    /\ burst.edges >= 2
    /\ Executed(factory_reset_work) >= 1
    /\ btn_state = BTN_IDLE

\* A burst of edges that began with a press edge and has not settled yet
TapInProgress == burst.edges >= 1 /\ burst.first /\ burst.settles = 0

\* C33: A tap shorter than the quiet period is ignored.  While a burst that
\* began with a press edge has not settled (every gap shorter than 30 ms) the
\* classifier stays in BTN_IDLE with the hold timer not started; when its
\* single settle samples 'released' the state is still BTN_IDLE, the hold
\* timer is still not started, no press event is submitted and the relay is
\* left alone.
C33_ShortTapIgnored ==
    /\ [](TapInProgress => (btn_state = BTN_IDLE /\ ~factory_reset_timer.armed))
    /\ [][(/\ TapInProgress
            /\ last_op'.op = "debounce_timer_handler"
            /\ ~last_op'.pressed) =>
              /\ btn_state' = BTN_IDLE
              /\ ~factory_reset_timer'.armed
              /\ transitions' = transitions
              /\ work_q' = work_q
              /\ relay_state' = relay_state
              /\ relay_gpio' = relay_gpio]_vars

\* The first tap of the run has settled: press and release edges, one settle
\* that sampled 'released', nothing submitted and the relay still off
C33_Witness ==
    /\ last_op.op = "debounce_timer_handler"
    /\ last_op.from = BTN_IDLE
    /\ ~last_op.pressed
    /\ burst = [edges |-> 2, first |-> TRUE, settles |-> 1]
    /\ transitions = << >>
    /\ ~relay_state
    /\ btn_state = BTN_IDLE

\* The button handler with the work-queue thread scheduled fairly: a pending
\* item is eventually taken and a handler that was started eventually returns.
\* The run starts with a backlog of presses, so that a press can meet the
\* item pending, running or neither.
SpecButtonRun ==
    /\ InitBacklog
    /\ [][NextButton]_vars
    /\ WF_vars(work_queue_main)
    /\ WF_vars(short_press_work_handler)
    /\ WF_vars(factory_reset_work_handler)

\* The settle that has just run took the classifier from BTN_PRESSED to
\* BTN_IDLE
ShortPressJustMade ==
    /\ last_op.op = "debounce_timer_handler"
    /\ last_op.from = BTN_PRESSED
    /\ ~last_op.pressed

\* C34: Under a fair work queue, every PRESSED -> IDLE transition is followed
\* by an execution of short_press_work_handler that starts after it: the
\* number of executions at the transition is eventually exceeded.
C34_ShortPressHandled ==
    \A k \in 0..MaxEvents :
        (ShortPressJustMade /\ Executed(short_press_work) = k)
            ~> (Executed(short_press_work) > k)

\* A short press was made while the handler was running for the presses
\* before it; the item was queued again and the handler has run a second time
C34_Witness ==
    /\ Len(transitions) = Backlog + 1
    /\ transitions[Backlog + 1] = short_press_work
    /\ Executed(short_press_work) = 2
    /\ last_op.op = "short_press_work_handler"
    /\ work_q = << >>
    /\ work_running = NoItem

\* C35 as stated: the value placed in a transmitted report is
\* voltage_last_reported, the value whose crossing scheduled the report.
C35_ReportCarriesLastReported == sent.any => sent.value = sent.last

\* C35: A transmitted report carries the present value.  The value placed in
\* the report by send_voltage_report is voltage_present_value at the moment
\* voltage_report_cb runs, which differs from voltage_last_reported by less
\* than the threshold; every transmission is made by one scheduled callback,
\* which leaves the scheduler queue, so the reports transmitted never
\* outnumber the threshold crossings that scheduled one.
C35_ReportCarriesPresent ==
    /\ [](sent.any =>
            Abs(sent.value - sent.last) < VOLTAGE_REPORT_THRESHOLD_CV)
    /\ [][/\ (last_op'.op = "voltage_report_cb" /\ last_op'.pressed) =>
                /\ sent'.any
                /\ sent'.value = voltage_present_value
                /\ sent'.last = voltage_last_reported
          /\ sent' # sent =>
                /\ last_op'.op = "voltage_report_cb"
                /\ zb_sched # << >>
                /\ Head(zb_sched) = "voltage_report_cb"
                /\ zb_sched' = Tail(zb_sched)]_vars

\* A report was scheduled at 330, the next reading moved the present value
\* to 332 without crossing, and the report went out with 332
C35_Witness ==
    /\ last_op.op = "voltage_report_cb"
    /\ last_op.pressed
    /\ sent.any
    /\ sent.value = 332
    /\ sent.last = 330
    /\ voltage_last_reported = 330

\* The join flag the latest signal must have left
JoinedAfter(sig, status, before) ==
    IF sig \in {"ZB_BDB_SIGNAL_DEVICE_REBOOT", "ZB_BDB_SIGNAL_STEERING"}
       /\ status = "RET_OK"
    THEN TRUE
    ELSE IF sig = "ZB_ZDO_SIGNAL_LEAVE" THEN FALSE ELSE before

\* C36: The join flag follows the connectivity signals.  network_joined is
\* false until a signal is handled; it changes only in zboss_signal_handler;
\* after a signal it is true for ZB_BDB_SIGNAL_DEVICE_REBOOT or
\* ZB_BDB_SIGNAL_STEERING with RET_OK, false for ZB_ZDO_SIGNAL_LEAVE, and
\* what it was before for any other signal and for a reboot or steering
\* signal with a failure status.
C36_JoinedFollowsSignals ==
    /\ [](last_signal.sig = "none" => ~network_joined)
    /\ [](last_signal.sig # "none" =>
            network_joined = JoinedAfter(last_signal.sig, last_signal.status,
                                         last_signal.before))
    /\ [][network_joined' # network_joined =>
            last_op'.op = "zboss_signal_handler"]_vars

\* A steering signal with a failure status was handled while joined, and the
\* device is still joined
C36_Witness ==
    /\ last_signal.sig = "ZB_BDB_SIGNAL_STEERING"
    /\ last_signal.status = "RET_ERROR"
    /\ last_signal.before
    /\ network_joined
    /\ last_op.op = "zboss_signal_handler"

\* The call treated the update as threshold-crossing: it assigned the new
\* value to voltage_last_reported
TreatedAsCrossing ==
    /\ last_update.last_after = last_update.present
    /\ last_update.present # last_update.last_before

\* C37 as stated: the threshold test is exact over the whole 16-bit range.
\* For every pair of zb_int16_t values (new value, voltage_last_reported) the
\* call treats the update as threshold-crossing exactly when the
\* mathematical |new - last_reported| is 5 or more.
C37_ThresholdExact ==
    last_update.called =>
        (TreatedAsCrossing <=>
            Abs(last_update.present - last_update.last_before)
                >= VOLTAGE_REPORT_THRESHOLD_CV)

\* With voltage_last_reported at -32768 a reading of 32767 centivolts, 65535
\* away, was taken for a change of 1 and not reported
C37_Wrapped ==
    /\ last_update.called
    /\ last_update.last_before = -32768
    /\ last_update.present = 32767
    /\ last_update.joined
    /\ ~last_update.sched
    /\ voltage_last_reported = -32768

\* C40 as stated: an On/Off set-attribute callback for an endpoint other
\* than the relay endpoint leaves relay state and output unchanged and ends
\* with status RET_ERROR after zcl_device_cb has returned; one for the relay
\* endpoint sets state and output to the commanded value with status RET_OK.
C40_OnOffStatus ==
    (last_op.op = "zcl_device_cb" /\ last_zcl.on_off) =>
        IF last_zcl.endpoint = RELAY_SWITCH_ENDPOINT
        THEN /\ relay_state = last_zcl.value
             /\ relay_gpio = last_zcl.value
             /\ last_zcl.status = "RET_OK"
        ELSE /\ relay_state = last_zcl.before
             /\ relay_gpio = last_zcl.before_gpio
             /\ last_zcl.status = "RET_ERROR"

\* No thread is between its store to relay_ctx.relay_state and its
\* relay_control_set call
NoRelayOperation == relay_ops.wq.pc = "idle" /\ relay_ops.zb.pc = "idle"

\* C38 as stated: relay output and relay state agree.  Whenever no relay
\* operation is in progress, the level last written by relay_control_set is
\* relay_ctx.relay_state, in every interleaving of the work queue's
\* zigbee_device_set_relay with the stack's zcl_on_off_handler.
C38_OutputMatchesState == NoRelayOperation => relay_gpio = relay_state

\* The outcome of main.c's path that answers a press event of the classifier
OutcomeOf(work) == IF work = short_press_work THEN "toggle" ELSE "reset"

\* Both hold timers have been dealt with: none has expired with its handler
\* still to run
TimersSettled == ~Expired(factory_reset_timer) /\ ~Expired(dk.timer)

\* C39: main.c's button path classifies presses like the classifier of the
\* button handler.  Fed with the same press and release changes and the
\* same hold-timer expiries, dk_button_handler with its timer handler
\* produces the outcomes of process_button_state with its timer handler, in
\* the same order: a toggle for a release before 5000 ms, a factory reset
\* request for a hold of 5000 ms, nothing for the release after a long
\* press; factory_reset_pending is set exactly while the classifier is in
\* BTN_LONG_PRESS and is clear after every release.
C39_SameOutcomes ==
    /\ TimersSettled =>
          /\ dk.timer = factory_reset_timer
          /\ Len(dk.outcomes) = Len(transitions)
          /\ \A i \in 1..Len(transitions) :
                dk.outcomes[i] = OutcomeOf(transitions[i])
          /\ dk.pending <=> btn_state = BTN_LONG_PRESS
    /\ ~level => ~dk.pending
    /\ Count(dk.outcomes, "reset") = resets + Count(zb_sched, "do_factory_reset")

\* A short press, then a long press and its release: one toggle, one reset
\* request, and nothing for the last release
C39_Witness ==
    /\ last_op.op = "dk_button_handler"
    /\ last_op.from = BTN_LONG_PRESS
    /\ ~level
    /\ dk.outcomes = << "toggle", "reset" >>
    /\ transitions = << short_press_work, factory_reset_work >>
    /\ relay_state

====
